---- MODULE Spec2Model ----
(***************************************************************************)
(* Model of go-andiamo/columbus: the map-row Mapper (mapper.go), its       *)
(* column plan (columns.go), the sub-queries (sub-query source) and the    *)
(* StructMapper.  Read calls are state machines over call frames; a        *)
(* sub-query's nested read is a second frame pushed on the caller's stack. *)
(* Every critical section of a sync.RWMutex is one atomic action; the      *)
(* code between two critical sections is a separate action.                *)
(***************************************************************************)
EXTENDS Integers, Sequences, FiniteSets, TLC

\* ---------------------------------------------------------------- bounds
\* total number of top-level read calls started in one behaviour
MaxCalls == 2
\* largest limit a testLimiter-like Limiter option is given
MaxLimit == 2

\* the goroutines that may call into the shared mapper concurrently
Procs == {"g1", "g2"}

\* ---------------------------------------------------------------- errors
NoError == "nil"
ErrNoRows == "sql: no rows in result set"
ErrNoDefaultQuery == "no default query"
ErrAddClause == "add clause must have a query set"
ErrUnknownOption == "unknown option type"
ErrMultipleQueries == "cannot use multiple default queries"
ErrForged == "cannot forge extra columns using Query"
ErrDb == "db error"
ErrColumnTypes == "column types error"
ErrScanCount == "sql: expected destination arguments in Scan"
ErrDecode == "decode error"
ErrPostProcess == "post-process error"
ErrRowPostProcess == "row post-processor error"
ErrHandler == "handler error"
ErrWriter == "writer error"
ErrArg == "sub-query arg property does not exist"
ErrNotStruct == "StructMapper can only be used with struct types"
ErrDuplicate == "duplicate column mapping"
ErrColumns == "columns error"
ErrUnmapped == "unmapped column(s)"
ErrUnknownColumns == "unknown column(s)"
ErrConvert == "sql: Scan error: converting driver.Value type"
ErrStructPostProcess == "struct post-processor error"

\* ---------------------------------------------------------------- values
\* a Go `any` value: a tag and a payload (payloads of one tag have one type)
Nil == [t |-> "nil", v |-> ""]
StrV(s) == [t |-> "string", v |-> s]
BytesV(s) == [t |-> "bytes", v |-> s]
IntV(s) == [t |-> "int64", v |-> s]
FloatV(s) == [t |-> "float64", v |-> s]
BoolV(s) == [t |-> "bool", v |-> s]
DecV(s) == [t |-> "decimal", v |-> s]
MapV(m) == [t |-> "map", v |-> m]
ListV(l) == [t |-> "list", v |-> l]

\* the empty map[string]any
EmptyRow == [k \in {} |-> Nil]

\* m with m[k] = v set (Go map assignment)
MapSet(m, k, v) == [x \in (DOMAIN m) \cup {k} |-> IF x = k THEN v ELSE m[x]]

\* ---------------------------------------------------------------- text
\* a text is a sequence of characters; a run of characters that are neither
\* white space nor a comma may be written as one element
Cutset == {" ", "\t", "\r", "\n"}

RECURSIVE TrimLeft(_)
TrimLeft(s) ==
    IF s # <<>> /\ Head(s) \in Cutset THEN TrimLeft(Tail(s)) ELSE s

HasPrefixComma(s) == s # <<>> /\ Head(s) = ","

\* SelectText without the space after the columns
SelectTextNoSpace(cols, option) == <<"SELECT", " ">> \o cols \o option

\* "SELECT " + cols + " " + option
SelectText(cols, option) == <<"SELECT", " ">> \o cols \o <<" ">> \o option

\* ---------------------------------------------------------------- mappings
\* Mapping struct; PostProcess and Scanner are "" when nil, otherwise the
\* name of the caller-supplied function
Mapping(name, path, omit, def, pp, sc) ==
    [PropertyName |-> name, Path |-> path, OmitNull |-> omit,
     NullDefault |-> def, PostProcess |-> pp, Scanner |-> sc]

\* Mappings{}
NoMappings == [k \in {} |-> Mapping("", <<>>, FALSE, Nil, "", "")]

\* for k, v := range option { mappings[k] = v }
MergeMappings(base, over) ==
    [k \in (DOMAIN base) \cup (DOMAIN over) |->
        IF k \in DOMAIN over THEN over[k] ELSE base[k]]

\* ---------------------------------------------------------------- scanners
\* strconv.ParseBool
ParseBoolTrue == {"1", "t", "T", "TRUE", "true", "True"}
ParseBoolFalse == {"0", "f", "F", "FALSE", "false", "False"}

\* BoolColumn: the ColumnScanner shipped with the package
BoolColumn(src) ==
    CASE src.t = "bool" -> [v |-> src, err |-> NoError]
      [] src.t \in {"int64", "float64"} ->
            [v |-> BoolV(IF src.v = "0" THEN "false" ELSE "true"), err |-> NoError]
      [] src.t \in {"bytes", "string"} ->
            IF src.v \in ParseBoolTrue THEN [v |-> BoolV("true"), err |-> NoError]
            ELSE IF src.v \in ParseBoolFalse THEN [v |-> BoolV("false"), err |-> NoError]
            ELSE [v |-> Nil, err |-> ErrDecode]
      [] src.t = "nil" -> [v |-> BoolV("false"), err |-> NoError]
      [] OTHER -> [v |-> Nil, err |-> ErrDecode]

\* texts decimal.NewFromString accepts
NumericTexts == {"0", "1", "16.16"}
\* v[1 : len(v)-1] of a text that is wrapped in double quotes and longer than 2
Unquoted(s) ==
    CASE s = "\"16.16\"" -> "16.16"
      [] s = "\"1\"" -> "1"
      [] s = "\"x\"" -> "x"
      [] OTHER -> s

\* customColumnScanner.Scan: the value is stored only when err == nil
CustomScan(scanner, src) ==
    IF scanner = "BoolColumn" THEN BoolColumn(src)
    ELSE [v |-> Nil, err |-> ErrDecode]

\* rawColumnScanner.Scan
RawScan(src) == [v |-> src, err |-> NoError]

\* stringColumnScanner.Scan
StringScan(src) ==
    [v |-> IF src.t = "bytes" THEN StrV(src.v) ELSE src, err |-> NoError]

\* decimalColumnScanner.Scan
DecimalScan(src) ==
    CASE src.t \in {"float32", "float64", "int64"} ->
            [v |-> DecV(src.v), err |-> NoError]
      [] src.t \in {"bytes", "string"} ->
            IF Unquoted(src.v) \in NumericTexts
            THEN [v |-> DecV(Unquoted(src.v)), err |-> NoError]
            ELSE [v |-> Nil, err |-> ErrDecode]
      [] OTHER -> [v |-> src, err |-> NoError]

\* json.Unmarshal into an `any`
JsonUnmarshal(text) ==
    CASE text = "null" -> [v |-> Nil, err |-> NoError]
      [] text = "true" -> [v |-> BoolV("true"), err |-> NoError]
      [] text = "1" -> [v |-> FloatV("1"), err |-> NoError]
      [] text = "\"x\"" -> [v |-> StrV("x"), err |-> NoError]
      [] text = "{}" -> [v |-> MapV(EmptyRow), err |-> NoError]
      [] OTHER -> [v |-> Nil, err |-> ErrDecode]

\* jsonColumnScanner.Scan
JsonScan(src) ==
    IF src.t \in {"bytes", "string"} THEN JsonUnmarshal(src.v)
    ELSE [v |-> src, err |-> NoError]

\* ---------------------------------------------------------------- column plan
\* sql.ColumnType as seen by newColumnsInfo
ColumnType(name, dbType, scanType) ==
    [name |-> name, dbType |-> dbType, scanType |-> scanType]

\* a nil *columnsInfo
NilColumnsInfo ==
    [valid |-> FALSE, count |-> 0, names |-> <<>>, scanTypes |-> <<>>,
     dbTypes |-> <<>>, mappings |-> NoMappings]

\* newColumnsInfo: nil and the error when rows.ColumnTypes() fails
newColumnsInfo(rs, mappings) ==
    IF rs.ctErr THEN [info |-> NilColumnsInfo, err |-> ErrColumnTypes]
    ELSE [info |-> [valid |-> TRUE, count |-> Len(rs.cols),
                    names |-> [i \in 1..Len(rs.cols) |-> rs.cols[i].name],
                    scanTypes |-> [i \in 1..Len(rs.cols) |-> rs.cols[i].scanType],
                    dbTypes |-> [i \in 1..Len(rs.cols) |-> rs.cols[i].dbType],
                    mappings |-> mappings],
          err |-> NoError]

\* case "DECIMAL", "FLOAT", "DOUBLE", "NUMERIC"
FloatDbTypes == {"DECIMAL", "FLOAT", "DOUBLE", "NUMERIC"}

\* strings.HasPrefix
HasPrefix(str, prefix) ==
    Len(str) >= Len(prefix) /\ SubSeq(str, 1, Len(prefix)) = prefix

\* buildScanner with the native scan type looked at before the database type
buildScannerNativeFirst(ci, index) ==
    IF ci.names[index] \in DOMAIN ci.mappings /\ ci.mappings[ci.names[index]].Scanner # ""
    THEN [kind |-> "custom", scanner |-> ci.mappings[ci.names[index]].Scanner]
    ELSE IF ci.scanTypes[index] \in {"string", "NullString"} THEN [kind |-> "string", scanner |-> ""]
    ELSE IF ci.scanTypes[index] \in {"float32", "float64", "NullFloat64"}
         THEN [kind |-> "decimal", scanner |-> ""]
    ELSE IF ci.dbTypes[index] \in {"JSON", "JSONB"} THEN [kind |-> "json", scanner |-> ""]
    ELSE IF ci.dbTypes[index] \in FloatDbTypes \/ HasPrefix(ci.dbTypes[index], "FLOAT")
         THEN [kind |-> "decimal", scanner |-> ""]
    ELSE [kind |-> "raw", scanner |-> ""]

\* columnsInfo.buildScanner: the scanner of column index
buildScanner(ci, index) ==
    IF ci.names[index] \in DOMAIN ci.mappings /\ ci.mappings[ci.names[index]].Scanner # ""
    THEN [kind |-> "custom", scanner |-> ci.mappings[ci.names[index]].Scanner]
    ELSE IF ci.dbTypes[index] \in {"JSON", "JSONB"} THEN [kind |-> "json", scanner |-> ""]
    ELSE IF ci.dbTypes[index] \in FloatDbTypes \/ HasPrefix(ci.dbTypes[index], "FLOAT")
         THEN [kind |-> "decimal", scanner |-> ""]
    ELSE IF ci.scanTypes[index] \in {"string", "NullString"} THEN [kind |-> "string", scanner |-> ""]
    ELSE IF ci.scanTypes[index] \in {"float32", "float64", "NullFloat64"}
         THEN [kind |-> "decimal", scanner |-> ""]
    ELSE [kind |-> "raw", scanner |-> ""]

\* a nil *columnsReader
NilReader == [valid |-> FALSE, count |-> 0, names |-> <<>>, scanArgs |-> <<>>]

\* columnsInfo.reader: fresh value buffers and one scanner per column
reader(ci) ==
    [valid |-> TRUE, count |-> ci.count, names |-> ci.names,
     scanArgs |-> [i \in 1..ci.count |-> buildScanner(ci, i)]]

\* sql.Scanner.Scan of one column
ScanColumn(sa, src) ==
    CASE sa.kind = "custom" -> CustomScan(sa.scanner, src)
      [] sa.kind = "json" -> JsonScan(src)
      [] sa.kind = "decimal" -> DecimalScan(src)
      [] sa.kind = "string" -> StringScan(src)
      [] OTHER -> RawScan(src)

\* rows.Scan(cols.scanArgs...): database/sql refuses a destination count that
\* differs from the cursor's column count; the first failing column aborts
RowsScan(cr, raw) ==
    IF cr.count # Len(raw) THEN [values |-> <<>>, err |-> ErrScanCount]
    ELSE LET res == [i \in 1..cr.count |-> ScanColumn(cr.scanArgs[i], raw[i])]
             bad == {i \in 1..cr.count : res[i].err # NoError}
         IN IF bad = {} THEN [values |-> [i \in 1..cr.count |-> res[i].v], err |-> NoError]
            ELSE [values |-> <<>>,
                  err |-> res[CHOOSE i \in bad : \A j \in bad : i <= j].err]

\* ---------------------------------------------------------------- exclusions
\* a PropertyExcluder: nil, an AllowedProperties map (props: keys with a nil
\* condition, cprops: keys with a condition) or a ConditionalExclude function;
\* pairs: the (property, path) pairs the condition function returns true for
Excluder(kind, props, cprops, pairs) ==
    [kind |-> kind, props |-> props, cprops |-> cprops, pairs |-> pairs]
NilExcluder == Excluder("nil", {}, {}, {})

\* AllowedProperties.Exclude / ConditionalExclude.Exclude
ExcluderExclude(x, property, path) ==
    IF x.kind = "allowed"
    THEN IF property \in x.cprops THEN <<property, path>> \in x.pairs
         ELSE property \notin x.props
    ELSE <<property, path>> \in x.pairs

\* PropertyExclusions.Exclude
Exclude(p, property, path) ==
    \E i \in 1..Len(p) : p[i].kind # "nil" /\ ExcluderExclude(p[i], property, path)

\* ---------------------------------------------------------------- row assembly
\* PlaceAt with a new map made for every path element
RECURSIVE PlaceAtNew(_, _, _, _)
PlaceAtNew(obj, path, name, value) ==
    IF path = <<>> THEN MapSet(obj, name, value)
    ELSE MapSet(obj, Head(path), MapV(PlaceAtNew(EmptyRow, Tail(path), name, value)))

\* the walk along mapping.Path of mapRow followed by useObject[name] = value:
\* an existing nested map is entered, anything else is replaced by a new map
RECURSIVE PlaceAt(_, _, _, _)
PlaceAt(obj, path, name, value) ==
    IF path = <<>> THEN MapSet(obj, name, value)
    ELSE LET k == Head(path)
             sub == IF k \in DOMAIN obj /\ obj[k].t = "map" THEN obj[k].v ELSE EmptyRow
         IN MapSet(obj, k, MapV(PlaceAt(sub, Tail(path), name, value)))

\* the caller-supplied Mapping.PostProcess functions used by the model
PostProcessCall(pp, row, value) ==
    CASE pp = "ppErr" -> [replace |-> FALSE, value |-> Nil, err |-> ErrPostProcess]
      [] pp = "ppReplace" -> [replace |-> TRUE, value |-> StrV("replaced"), err |-> NoError]
      [] OTHER -> [replace |-> FALSE, value |-> Nil, err |-> NoError]

\* OmitsNull without the test of OmitNull
OmitsNullNever(mp, value) == FALSE

\* if value == nil { if mapping.OmitNull { continue } ... }
OmitsNull(mp, value) == value.t = "nil" /\ mp.OmitNull

\* ... else if mapping.NullDefault != nil { value = mapping.NullDefault }
NullSubstitute(mp, value) ==
    IF value.t = "nil" /\ mp.NullDefault.t # "nil" THEN mp.NullDefault ELSE value

\* ReplaceAt with the replacement written at the top of the row
ReplaceAtTop(obj, path, name, value) == MapSet(obj, name, value)

\* useObject[name] = replaceValue: useObject is still the map the walk of
\* the mapping's path ended in
ReplaceAt(obj, path, name, value) == PlaceAt(obj, path, name, value)

\* the column loop of mapRow from column i on; row: the map built so far
\* (called: the calls of Mapping.PostProcess, each with the column, the row
\* it was passed and the value it was passed)
RECURSIVE mapRowColumns(_, _, _, _, _, _, _)
mapRowColumns(i, row, cr, values, mappings, exclusions, subPath) ==
    IF i > cr.count THEN [row |-> MapV(row), err |-> NoError, called |-> <<>>]
    ELSE
      LET col == cr.names[i]
          mapped == col \in DOMAIN mappings
          mp == IF mapped THEN mappings[col] ELSE Mapping("", <<>>, FALSE, Nil, "", "")
          value == IF mapped THEN NullSubstitute(mp, values[i]) ELSE values[i]
          name == IF mapped /\ mp.PropertyName # "" THEN mp.PropertyName ELSE col
          excluded == Exclude(exclusions, name, subPath \o mp.Path)
          placed == PlaceAt(row, mp.Path, name, value)
          ppr == PostProcessCall(mp.PostProcess, placed, value)
          call == <<[col |-> i, row |-> placed, value |-> value]>>
          after == IF ppr.replace THEN ReplaceAt(placed, mp.Path, name, ppr.value)
                   ELSE placed
          rest == mapRowColumns(i + 1, after, cr, values, mappings, exclusions, subPath)
      IN IF mapped /\ OmitsNull(mp, values[i])
           THEN mapRowColumns(i + 1, row, cr, values, mappings, exclusions, subPath)
         ELSE IF excluded
           THEN mapRowColumns(i + 1, row, cr, values, mappings, exclusions, subPath)
         ELSE IF mapped /\ mp.PostProcess # ""
           THEN IF ppr.err # NoError THEN [row |-> Nil, err |-> ppr.err, called |-> call]
                ELSE [rest EXCEPT !.called = call \o @]
         ELSE mapRowColumns(i + 1, placed, cr, values, mappings, exclusions, subPath)

\* mapRow up to the end of the column loop: rows.Scan, then the columns
mapRowScan(cr, raw, mappings, exclusions, subPath) ==
    LET sc == RowsScan(cr, raw)
    IN IF sc.err # NoError THEN [row |-> Nil, err |-> sc.err, called |-> <<>>]
       ELSE mapRowColumns(1, EmptyRow, cr, sc.values, mappings, exclusions, subPath)

\* Executes without the test of the exclusions
ExecutesAlways(property, exclusions) == TRUE

\* sq.ProvidesProperty() == "" || !exclusions.Exclude(sq.ProvidesProperty(), nil),
\* the same for a row post-processor
Executes(property, exclusions) ==
    property = "" \/ ~Exclude(exclusions, property, <<>>)

\* a RowPostProcessor: the property it provides and what PostProcess does
RowPP(provides, behaviour) == [provides |-> provides, behaviour |-> behaviour]
NilRowPP == RowPP("", "nil")

\* RowPostProcessor.PostProcess of the processors used by the model
RowPostProcess(rp, row) ==
    CASE rp.behaviour = "rpErr" -> [row |-> row, err |-> ErrRowPostProcess]
      [] rp.behaviour = "rpSet" ->
            [row |-> MapSet(row, "initials", StrV("pp")), err |-> NoError]
      [] OTHER -> [row |-> row, err |-> NoError]

\* the row post-processor loop of mapRow from processor i on
\* (called: the indices of the processors whose PostProcess was called)
RECURSIVE mapRowPostProcesses(_, _, _, _)
mapRowPostProcesses(i, row, postProcesses, exclusions) ==
    IF i > Len(postProcesses) THEN [row |-> MapV(row), err |-> NoError, called |-> <<>>]
    ELSE LET rp == postProcesses[i]
             r == RowPostProcess(rp, row)
             rest == mapRowPostProcesses(i + 1, r.row, postProcesses, exclusions)
         IN IF rp.behaviour # "nil" /\ Executes(rp.provides, exclusions)
            THEN IF r.err # NoError THEN [row |-> Nil, err |-> r.err, called |-> <<i>>]
                 ELSE [rest EXCEPT !.called = <<i>> \o @]
            ELSE mapRowPostProcesses(i + 1, row, postProcesses, exclusions)

\* ---------------------------------------------------------------- options
\* a Limiter: nullLimiter, or one that reports rowCount > limit (testLimiter)
Limiter(null, limit) == [null |-> null, limit |-> limit]
\* a default limiter that is reached by every row count above zero
nullLimiterZero == Limiter(FALSE, 0)

\* the default limiter: LimitReached always answers false
nullLimiter == Limiter(TRUE, 0)
LimitReached(l, rowCount) == ~l.null /\ rowCount > l.limit

\* one element of the variadic `options ...any`; kind is its dynamic type
\* ("nil" for a nil option, "Unknown" for a type no switch knows)
Opt(kind, text, n, maps, xs, rp, sq) ==
    [kind |-> kind, text |-> text, n |-> n, maps |-> maps, xs |-> xs, rp |-> rp, sq |-> sq]
NilOpt == Opt("nil", <<>>, 0, NoMappings, <<>>, NilRowPP, "")
QueryOpt(text) == Opt("Query", text, 0, NoMappings, <<>>, NilRowPP, "")
AddClauseOpt(text) == Opt("AddClause", text, 0, NoMappings, <<>>, NilRowPP, "")
MappingsOpt(maps) == Opt("Mappings", <<>>, 0, maps, <<>>, NilRowPP, "")
ExclusionsOpt(xs) == Opt("PropertyExclusions", <<>>, 0, NoMappings, xs, NilRowPP, "")
ExcluderOpt(x) == Opt("PropertyExcluder", <<>>, 0, NoMappings, <<x>>, NilRowPP, "")
ExcludeFuncOpt(x) == Opt("func", <<>>, 0, NoMappings, <<x>>, NilRowPP, "")
RowPPOpt(rp) == Opt("RowPostProcessor", <<>>, 0, NoMappings, <<>>, rp, "")
SubQueryOpt(sq) == Opt("SubQuery", <<>>, 0, NoMappings, <<>>, NilRowPP, sq)
LimiterOpt(n) == Opt("Limiter", <<>>, n, NoMappings, <<>>, NilRowPP, "")
UseDecimalsOpt(n) == Opt("UseDecimals", <<>>, n, NoMappings, <<>>, NilRowPP, "")
ErrorTranslatorOpt == Opt("ErrorTranslator", <<>>, 0, NoMappings, <<>>, NilRowPP, "")
\* options of types no switch knows: a string and an int
UnknownOpt == Opt("Unknown", <<>>, 0, NoMappings, <<>>, NilRowPP, "")
UnknownIntOpt == Opt("UnknownInt", <<>>, 0, NoMappings, <<>>, NilRowPP, "")
\* the options only NewStructMapper and the StructMapper reads know; a
\* StructPostProcessor is named by what it does ("sppOk", "sppErr")
ErrorOnUnknownColumnsOpt(n) == Opt("ErrorOnUnknownColumns", <<>>, n, NoMappings, <<>>, NilRowPP, "")
ErrorOnUnMappedColumnsOpt(n) == Opt("ErrorOnUnMappedColumns", <<>>, n, NoMappings, <<>>, NilRowPP, "")
UseTagNameOpt(name) == Opt("UseTagName", <<>>, 0, NoMappings, <<>>, NilRowPP, name)
StructPostProcessorOpt(pp) == Opt("StructPostProcessor", <<>>, 0, NoMappings, <<>>, NilRowPP, pp)

\* what %T prints for the option: the name of its dynamic type (the options
\* given as implementations of an interface are of the test types)
TypeName(o) ==
    CASE o.kind = "Unknown" -> "string"
      [] o.kind = "UnknownInt" -> "int"
      [] o.kind = "func" -> "func(string, []string) bool"
      [] o.kind = "PropertyExcluder" -> "columbus.AllowedProperties"
      [] o.kind = "Limiter" -> "*columbus.testLimiter"
      [] o.kind = "ErrorTranslator" -> "*columbus.testErrorTranslator"
      [] o.kind = "StructPostProcessor" -> "*columbus.testStructPostProcessor"
      [] o.kind = "RowPostProcessor" -> "*columbus.dummyRowPostProcessor"
      [] o.kind = "SubQuery" -> "*columbus.sliceSubQuery"
      [] OTHER -> "columbus." \o o.kind

\* UnknownOption without the type
UnknownOptionBare(o) == ErrUnknownOption

\* fmt.Errorf("unknown option type: %T", o)
UnknownOption(o) == ErrUnknownOption \o ": " \o TypeName(o)

\* a *Query: nil, or the text
NilQuery == [set |-> FALSE, text |-> <<>>]
QueryPtr(text) == [set |-> TRUE, text |-> text]

\* ---------------------------------------------------------------- mapper
\* the mapper struct; subQuery is "" when the mapper is not a nested one
MapperRec(cols, mappings, rpps, sqs, dq, dec, sq, subPath) ==
    [cols |-> cols, columnsInfo |-> NilColumnsInfo, mappings |-> mappings,
     rowPostProcessors |-> rpps, rowSubQueries |-> sqs, defaultQuery |-> dq,
     useDecimals |-> dec, subQuery |-> sq, subPath |-> subPath]

\* mapper.copyMappings
copyMappings(m) == [k \in DOMAIN m.mappings |-> m.mappings[k]]

\* mapper.addOptions from option i on; seenQuery is the local of that name
RECURSIVE addOptions(_, _, _, _)
addOptions(m, options, i, seenQuery) ==
    IF i > Len(options) THEN [m |-> m, err |-> NoError]
    ELSE LET o == options[i]
         IN CASE o.kind = "nil" -> addOptions(m, options, i + 1, seenQuery)
              [] o.kind = "RowPostProcessor" ->
                    addOptions([m EXCEPT !.rowPostProcessors = Append(@, o.rp)],
                               options, i + 1, seenQuery)
              [] o.kind = "SubQuery" ->
                    addOptions([m EXCEPT !.rowSubQueries = Append(@, o.sq)],
                               options, i + 1, seenQuery)
              [] o.kind = "Query" ->
                    IF seenQuery THEN [m |-> m, err |-> ErrMultipleQueries]
                    ELSE addOptions([m EXCEPT !.defaultQuery =
                                                 QueryPtr(SelectText(m.cols, o.text))],
                                    options, i + 1, TRUE)
              [] o.kind = "UseDecimals" ->
                    addOptions([m EXCEPT !.useDecimals = (o.n # 0)], options, i + 1, seenQuery)
              [] o.kind = "Mappings" ->
                    addOptions([m EXCEPT !.mappings = MergeMappings(@, o.maps)],
                               options, i + 1, seenQuery)
              [] OTHER -> [m |-> m, err |-> UnknownOption(o)]

\* newMapper: the mapper, or ok = FALSE (a nil mapper) and the error
newMapper(cols, options) ==
    LET r == addOptions(MapperRec(cols, NoMappings, <<>>, <<>>, NilQuery, TRUE, "", <<>>),
                        options, 1, FALSE)
    IN [ok |-> r.err = NoError, m |-> r.m, err |-> r.err]

\* strings.Join(elems, ",")
RECURSIVE Join(_)
Join(elems) ==
    IF Len(elems) <= 1 THEN elems ELSE <<Head(elems), ",">> \o Join(Tail(elems))

\* ExtendCols with the added columns in place of the original ones
ExtendColsReplaced(cols, addColumns) == Join(addColumns)

\* the column list of the mapper Extend makes
ExtendCols(cols, addColumns) ==
    IF Len(addColumns) # 0
    THEN IF cols # <<>> THEN cols \o <<",">> \o Join(addColumns) ELSE Join(addColumns)
    ELSE cols

\* mapper.Extend: the new mapper, or ok = FALSE (nil) and the error.  The new
\* mapper has a copy of the mappings, new slices and no column plan; orig is
\* the receiver as the call leaves it: no field of m is written
Extend(m, addColumns, mappings, options) ==
    LET r == addOptions(MapperRec(ExtendCols(m.cols, addColumns),
                                  MergeMappings(copyMappings(m), mappings),
                                  m.rowPostProcessors, m.rowSubQueries, m.defaultQuery,
                                  m.useDecimals, "", <<>>),
                        options, 1, FALSE)
    IN [ok |-> r.err = NoError, m |-> r.m, err |-> r.err, orig |-> m]

\* a mapper that stands for "no mapper"
NilMapper == MapperRec(<<>>, NoMappings, <<>>, <<>>, NilQuery, TRUE, "", <<>>)

\* what rowMapOptions returns, and own: the map m.mappings refers to, as the
\* call leaves it (mappings starts as a second reference to that map)
RowMapOptions(query, mappings, postProcesses, subQueries, exclusions, limiter, err) ==
    [query |-> query, mappings |-> mappings, postProcesses |-> postProcesses,
     subQueries |-> subQueries, exclusions |-> exclusions, limiter |-> limiter, err |-> err,
     own |-> mappings]

\* if !mappingsCopied { mappingsCopied = true; mappings = m.copyMappings() }:
\* whether mappings still refers to the mapper's own map after these lines,
\* when the option's entries are written into it
SharedAtWrite(mappingsCopied) == FALSE

\* the option loop of mapper.rowMapOptions from option i on; r holds the named
\* results so far, querySet and mappingsCopied the locals of those names
\* AddSubQuery with the call's sub-query put before the mapper's own
AddSubQueryFirst(subQueries, sq) == <<sq>> \o subQueries

\* subQueries = append(subQueries, option)
AddSubQuery(subQueries, sq) == Append(subQueries, sq)

RECURSIVE rowMapOptionsLoop(_, _, _, _, _, _)
rowMapOptionsLoop(m, options, i, r, querySet, mappingsCopied) ==
    IF i > Len(options)
    THEN IF querySet THEN r ELSE [r EXCEPT !.err = ErrNoDefaultQuery]
    ELSE LET o == options[i]
         IN CASE o.kind = "nil" ->
                    rowMapOptionsLoop(m, options, i + 1, r, querySet, mappingsCopied)
              [] o.kind = "Query" ->
                    rowMapOptionsLoop(m, options, i + 1,
                        [r EXCEPT !.query = SelectText(m.cols, o.text)], TRUE, mappingsCopied)
              [] o.kind = "AddClause" ->
                    IF ~querySet THEN [r EXCEPT !.err = ErrAddClause]
                    ELSE rowMapOptionsLoop(m, options, i + 1,
                             [r EXCEPT !.query = @ \o <<" ">> \o o.text], querySet,
                             mappingsCopied)
              [] o.kind = "Mappings" ->
                    rowMapOptionsLoop(m, options, i + 1,
                        [r EXCEPT !.mappings = MergeMappings(@, o.maps),
                                  !.own = IF SharedAtWrite(mappingsCopied)
                                          THEN MergeMappings(@, o.maps) ELSE @],
                        querySet, TRUE)
              [] o.kind \in {"PropertyExclusions", "PropertyExcluder", "func"} ->
                    rowMapOptionsLoop(m, options, i + 1,
                        [r EXCEPT !.exclusions = @ \o o.xs], querySet, mappingsCopied)
              [] o.kind = "RowPostProcessor" ->
                    rowMapOptionsLoop(m, options, i + 1,
                        [r EXCEPT !.postProcesses = Append(@, o.rp)], querySet,
                        mappingsCopied)
              [] o.kind = "SubQuery" ->
                    rowMapOptionsLoop(m, options, i + 1,
                        [r EXCEPT !.subQueries = AddSubQuery(@, o.sq)], querySet,
                        mappingsCopied)
              [] o.kind = "Limiter" ->
                    rowMapOptionsLoop(m, options, i + 1,
                        [r EXCEPT !.limiter = Limiter(FALSE, o.n)], querySet, mappingsCopied)
              [] OTHER ->
                    [RowMapOptions(<<>>, NoMappings, <<>>, <<>>, <<>>, nullLimiter,
                                   UnknownOption(o))
                     EXCEPT !.own = r.own]

\* mapper.rowMapOptions; sqQuery is m.subQuery.getQuery() of a nested mapper
rowMapOptions(m, sqQuery, options) ==
    rowMapOptionsLoop(m, options, 1,
        RowMapOptions(IF m.defaultQuery.set THEN m.defaultQuery.text
                      ELSE IF m.subQuery # "" THEN sqQuery ELSE <<>>,
                      m.mappings, m.rowPostProcessors, m.rowSubQueries, <<>>,
                      nullLimiter, NoError),
        m.defaultQuery.set \/ m.subQuery # "", FALSE)

\* ---------------------------------------------------------------- sub-queries
\* the subQuery struct with its shape (sliceSubQuery, objectSubQuery,
\* exactObjectSubQuery or mergeSubQuery); mapper: 0 for nil, else the mapper
SubQueryRec(shape, propertyName, query, argColumns, emptyNil, noOverwrite, mappings) ==
    [shape |-> shape, propertyName |-> propertyName, query |-> query,
     argColumns |-> argColumns, emptyNil |-> emptyNil, noOverwrite |-> noOverwrite,
     mappings |-> mappings, mapper |-> 0]

\* getArgs without the test of the parent row
getArgsNone(argColumns, row, i) == NoError

\* subQuery.getArgs: the error names the first absent argument column
RECURSIVE getArgs(_, _, _)
getArgs(argColumns, row, i) ==
    IF i > Len(argColumns) THEN NoError
    ELSE IF argColumns[i] \in DOMAIN row THEN getArgs(argColumns, row, i + 1)
    ELSE "sub-query arg property '" \o argColumns[i] \o "' does not exist"

\* the read operation of the nested mapper that Execute calls
ExecuteOp(shape) ==
    CASE shape = "slice" -> "Rows"
      [] shape = "exact" -> "ExactlyOneRow"
      [] OTHER -> "FirstRow"

\* MergeKeys without the test of noOverwrite
MergeKeysAll(row, obj, noOverwrite) == DOMAIN obj

\* the keys of obj whose value is copied into row by mergeSubQuery.Execute
MergeKeys(row, obj, noOverwrite) ==
    IF noOverwrite THEN (DOMAIN obj) \ (DOMAIN row) ELSE DOMAIN obj

\* ExecuteStore without the test of emptyNil
ExecuteStoreAsIs(sq, row, result) == MapSet(row, sq.propertyName, result)

\* the end of Execute after the nested read returned result without error
ExecuteStore(sq, row, result) ==
    CASE sq.shape = "slice" ->
            MapSet(row, sq.propertyName,
                   IF sq.emptyNil /\ (result.t = "nil" \/ result.v = <<>>) THEN Nil ELSE result)
      [] sq.shape = "object" ->
            MapSet(row, sq.propertyName,
                   IF sq.emptyNil /\ (result.t = "nil" \/ DOMAIN result.v = {}) THEN Nil
                   ELSE result)
      [] sq.shape = "exact" -> MapSet(row, sq.propertyName, result)
      [] OTHER ->
            IF result.t = "nil" THEN row
            ELSE [k \in (DOMAIN row) \cup (DOMAIN result.v) |->
                    IF k \in MergeKeys(row, result.v, sq.noOverwrite)
                    THEN result.v[k] ELSE row[k]]

\* ---------------------------------------------------------------- database
\* what sqli.QueryContext answers: an error, or a cursor over rows of raw
\* driver values with column metadata; ctErr: rows.ColumnTypes() fails
ResultSet(cols, rows, ctErr, dbErr) ==
    [cols |-> cols, rows |-> rows, ctErr |-> ctErr, dbErr |-> dbErr]

\* the caller's Iterate handler: cont = false at call stopAt, an error at call
\* errAt (0: never)
Handler(stopAt, errAt) == [stopAt |-> stopAt, errAt |-> errAt]

\* ---------------------------------------------------------------- frames
\* one activation of a read operation of mapper m: its resolved options, its
\* cursor (rs, pos, cursor), its locals and, once pc = "done", what it returned.
\* The history of the call, read by no operation:
\*   consulted  the Limiter's calls, each <<rowCount passed, rows produced so far>>
\*   scanned    the cursor positions rows.Scan was called at
\*   kept       the cursor positions of the rows produced (appended, written,
\*              returned or handed to the handler)
\*   rowErr     the error mapRow returned for the row that failed
\*   ctFailed   rows.ColumnTypes() failed while the plan was being built
\*   translated the errors handed to the ErrorTranslator
\*   executes   the calls of SubQuery.Execute: the cursor position of the parent
\*              row, the sub-query, the parent row as Execute received it,
\*              whether Execute went on to the nested read and, once that
\*              read returned (ret), its result and error, the parent row
\*              as Execute left it and the nested result set
\*   rpCalled   the calls of RowPostProcessor.PostProcess, each
\*              <<cursor position, index of the processor>>
\*   ppCalled   the calls of Mapping.PostProcess: the cursor position, the
\*              column, and the row and the value the function was passed
Frame(m, op, o, rs, handler, wfail) ==
    [m |-> m, op |-> op, pc |-> "start", o |-> o, rs |-> rs,
     queried |-> FALSE, cursor |-> "none", pos |-> 0,
     cr |-> NilReader, row |-> EmptyRow, sqi |-> 0, rm |-> 0,
     rowCount |-> 0, consulted |-> <<>>, scanned |-> <<>>,
     first |-> TRUE, cont |-> TRUE, handler |-> handler, calls |-> 0,
     wfail |-> wfail, writes |-> 0, out |-> <<>>, opts |-> <<>>,
     result |-> Nil, err |-> NoError,
     rowErr |-> NoError, ctFailed |-> FALSE, kept |-> <<>>, translated |-> <<>>,
     executes |-> <<>>, rpCalled |-> <<>>, ppCalled |-> <<>>, yielded |-> <<>>]

\* Closed without the deferred call
ClosedNever(f) == f.cursor

\* the deferred rows.Close() of a frame that obtained a cursor
Closed(f) == IF f.cursor = "open" THEN "closed" ELSE f.cursor

\* return from the operation
Done(f, result, err) ==
    [f EXCEPT !.pc = "done", !.result = result, !.err = err, !.cursor = Closed(f)]

\* a panic unwinding the operation: the deferred calls run, nothing is returned
Panic(f) == [f EXCEPT !.pc = "panic", !.result = Nil, !.cursor = Closed(f)]

\* writer.Write of one token: every write from number wfail on fails
WriteOk(f) == f.wfail = 0 \/ f.writes + 1 < f.wfail
Write(f, token) ==
    IF WriteOk(f) THEN [f EXCEPT !.writes = @ + 1, !.out = Append(@, token)]
    ELSE [f EXCEPT !.writes = @ + 1]

\* rows.Next()
HasNext(f) == f.pos < Len(f.rs.rows)

\* NoRowError without the assignment of sql.ErrNoRows
NoRowErrorUnset(op) == NoError

\* err = sql.ErrNoRows, set by the operations that require a row before they
\* look for one; the others start from a nil error
NoRowError(op) ==
    IF op \in {"ExactlyOneRow", "WriteExactlyOneRow"} THEN ErrNoRows ELSE NoError

\* from the entry of a read operation to its first use of shared state:
\* rowMapOptions, QueryContext and, for the single-row operations, rows.Next()
Enter(f) ==
    IF f.o.err # NoError THEN Done(f, Nil, f.o.err)
    ELSE IF f.rs.dbErr THEN Done([f EXCEPT !.queried = TRUE], Nil, ErrDb)
    ELSE LET g == [f EXCEPT !.queried = TRUE, !.cursor = "open"]
         IN IF f.op \in {"Rows", "WriteRows", "Iterate"} THEN [g EXCEPT !.pc = "mapColumns"]
            ELSE IF HasNext(g) THEN [g EXCEPT !.pc = "mapColumns", !.pos = 1]
            ELSE Done(g, Nil, NoRowError(f.op))

\* WriteRows after its loop: the closing bracket is written and err is
\* whatever that write returned
WriteRowsEnd(f) ==
    Done(Write(f, "]"), Nil, IF WriteOk(f) THEN NoError ELSE ErrWriter)

\* the code of each operation between mapColumns returning (cr, nil) and the
\* first rows.Next() of its loop, or its call of mapRow
AfterMapColumns(f, cr) ==
    LET g == [f EXCEPT !.cr = cr]
    IN CASE f.op = "Rows" -> [g EXCEPT !.pc = "loop", !.result = ListV(<<>>)]
         [] f.op = "WriteRows" ->
               IF WriteOk(g) THEN [Write(g, "[") EXCEPT !.pc = "loop"]
               ELSE WriteRowsEnd(Write(g, "["))
         [] f.op = "Iterate" -> [g EXCEPT !.pc = "loop", !.cont = TRUE]
         [] OTHER -> [g EXCEPT !.pc = "mapRow"]

\* RowCountNext without the increment
RowCountNextSame(f) == f.rowCount

\* rowCount++ at the top of the loop body of Rows and WriteRows
RowCountNext(f) == f.rowCount + 1

\* IterateGoesOn whatever the handler returned and mapRow reported
IterateGoesOnAnyway(f, next) == next

\* the loop condition of Iterate: rows.Next() && cont && err == nil
IterateGoesOn(f, next) == next /\ f.cont /\ f.err = NoError

\* one evaluation of the loop condition and, when it holds, the loop body up
\* to the call of mapRow
Fetch(f) ==
    LET next == HasNext(f)
        g == IF next THEN [f EXCEPT !.pos = @ + 1] ELSE f
        h == [g EXCEPT !.rowCount = RowCountNext(f),
                       !.consulted = Append(@, <<RowCountNext(f), Len(f.kept)>>)]
    IN CASE f.op = "Rows" ->
              IF ~next THEN Done(g, g.result, NoError)
              ELSE IF LimitReached(f.o.limiter, h.rowCount) THEN Done(h, h.result, NoError)
              ELSE [h EXCEPT !.pc = "mapRow"]
         [] f.op = "WriteRows" ->
              IF ~next \/ f.err # NoError THEN WriteRowsEnd(g)
              ELSE IF LimitReached(f.o.limiter, h.rowCount) THEN WriteRowsEnd(h)
              ELSE [h EXCEPT !.pc = "mapRow"]
         [] OTHER ->
              IF ~IterateGoesOn(f, next) THEN Done(g, Nil, g.err)
              ELSE [g EXCEPT !.pc = "mapRow"]

\* json.NewEncoder(writer).Encode(row): one write of the encoded row
Encode(f, row) == Write(f, row)

\* the handler of Iterate called for the n-th time
HandlerCall(h, n) ==
    [cont |-> ~(h.stopAt = n), err |-> IF h.errAt = n THEN ErrHandler ELSE NoError]

\* RowDone with ExactlyOneRow and WriteExactlyOneRow looking for a second row
\* and failing when there is one
RowDoneOnlyRow(f, row) ==
    CASE f.op = "Rows" ->
            [f EXCEPT !.pc = "loop", !.result = ListV(Append(f.result.v, row)),
                      !.kept = Append(@, f.pos)]
      [] f.op = "FirstRow" ->
            Done([f EXCEPT !.kept = Append(@, f.pos)], row, NoError)
      [] f.op \in {"ExactlyOneRow", "WriteExactlyOneRow"} /\ HasNext(f) ->
            Done([f EXCEPT !.pos = @ + 1], Nil, ErrNoRows)
      [] f.op = "ExactlyOneRow" ->
            Done([f EXCEPT !.kept = Append(@, f.pos)], row, NoError)
      [] f.op = "WriteRows" ->
            LET g == IF f.first THEN f ELSE Write(f, ",")
                commaOk == f.first \/ WriteOk(f)
            IN IF ~commaOk THEN [g EXCEPT !.pc = "loop", !.err = ErrWriter]
               ELSE [Encode(g, row) EXCEPT !.pc = "loop", !.first = FALSE,
                        !.err = IF WriteOk(g) THEN NoError ELSE ErrWriter,
                        !.kept = IF WriteOk(g) THEN Append(@, f.pos) ELSE @]
      [] f.op \in {"WriteFirstRow", "WriteExactlyOneRow"} ->
            Done([Encode(f, row) EXCEPT !.kept = IF WriteOk(f) THEN Append(@, f.pos) ELSE @],
                 Nil, IF WriteOk(f) THEN NoError ELSE ErrWriter)
      [] OTHER ->
            LET r == HandlerCall(f.handler, f.calls + 1)
            IN [f EXCEPT !.pc = "loop", !.calls = @ + 1, !.cont = r.cont, !.err = r.err,
                         !.kept = Append(@, f.pos)]

\* what each operation does with the row that mapRow returned without error
RowDone(f, row) ==
    CASE f.op = "Rows" ->
            [f EXCEPT !.pc = "loop", !.result = ListV(Append(f.result.v, row)),
                      !.kept = Append(@, f.pos)]
      [] f.op \in {"FirstRow", "ExactlyOneRow"} ->
            Done([f EXCEPT !.kept = Append(@, f.pos)], row, NoError)
      [] f.op = "WriteRows" ->
            LET g == IF f.first THEN f ELSE Write(f, ",")
                commaOk == f.first \/ WriteOk(f)
            IN IF ~commaOk THEN [g EXCEPT !.pc = "loop", !.err = ErrWriter]
               ELSE [Encode(g, row) EXCEPT !.pc = "loop", !.first = FALSE,
                        !.err = IF WriteOk(g) THEN NoError ELSE ErrWriter,
                        !.kept = IF WriteOk(g) THEN Append(@, f.pos) ELSE @]
      [] f.op \in {"WriteFirstRow", "WriteExactlyOneRow"} ->
            Done([Encode(f, row) EXCEPT !.kept = IF WriteOk(f) THEN Append(@, f.pos) ELSE @],
                 Nil, IF WriteOk(f) THEN NoError ELSE ErrWriter)
      [] OTHER ->
            LET r == HandlerCall(f.handler, f.calls + 1)
            IN [f EXCEPT !.pc = "loop", !.calls = @ + 1, !.cont = r.cont, !.err = r.err,
                         !.kept = Append(@, f.pos)]

\* what each operation does when mapRow returned (nil, err)
RowFailed(f, err) ==
    CASE f.op \in {"WriteRows", "Iterate"} ->
            [f EXCEPT !.pc = "loop", !.err = err, !.rowErr = err]
      [] OTHER -> Done([f EXCEPT !.rowErr = err], Nil, err)

\* ---------------------------------------------------------------- struct mapper
\* the caller's ErrorTranslator turns an error into another one; the default
\* translator returns its argument
DefaultErrorTranslator == "default"
CustomErrorTranslator == "custom"
Translate(translator, err) ==
    IF translator = CustomErrorTranslator THEN "translated: " \o err ELSE err

\* translateError
translateError(err, translator) ==
    IF err = NoError THEN NoError ELSE Translate(translator, err)

\* checkForgedColumns
checkForgedColumns(query) ==
    IF HasPrefixComma(TrimLeft(query)) THEN ErrForged ELSE NoError

\* the type parameter T: whether it is a struct and, per exported field, the
\* field's tags (tag name -> tag) and its Go type
StructField(tags, type) == [tags |-> tags, type |-> type]
StructType(isStruct, fields) == [isStruct |-> isStruct, fields |-> fields]

\* defaultFieldColumnNamer.ColumnName
ColumnName(tagName, fld) ==
    IF tagName \notin DOMAIN fld.tags \/ fld.tags[tagName] \in {"-", ""}
    THEN [name |-> "", named |-> FALSE]
    ELSE [name |-> fld.tags[tagName], named |-> TRUE]

\* the fields of T that a column name is derived for
NamedFields(m) ==
    {i \in DOMAIN m.T.fields : ColumnName(m.useTagName, m.T.fields[i]).named}

\* checkDuplicateMappedColumns / walkStruct
checkDuplicateMappedColumns(m) ==
    IF \E i, j \in NamedFields(m) :
          /\ i < j
          /\ ColumnName(m.useTagName, m.T.fields[i]).name
                = ColumnName(m.useTagName, m.T.fields[j]).name
    THEN ErrDuplicate ELSE NoError

\* a nil func(*T) []any
NilFieldMappers == [valid |-> FALSE, columns |-> <<>>, columnMap |-> <<>>]

\* a value of type T: its fields in declaration order
StructV(fields) == [t |-> "struct", v |-> fields]

\* &structMapper[T]{cols: cols, errorTranslator: defaultErrorTranslator}
StructMapperRec(T, cols) ==
    [T |-> T, cols |-> cols, defaultQuery |-> NilQuery, mapped |-> FALSE,
     fieldMappers |-> NilFieldMappers, errorOnUnknownColumns |-> FALSE,
     errorOnUnMappedColumns |-> FALSE, mapError |-> NoError, postProcessors |-> <<>>,
     useTagName |-> "sql", errorTranslator |-> DefaultErrorTranslator]

\* the option loop of structMapper.processInitialOptions from option i on
RECURSIVE processInitialOptionsLoop(_, _, _, _)
processInitialOptionsLoop(m, options, i, seenQuery) ==
    IF i > Len(options) THEN [m |-> m, err |-> NoError]
    ELSE LET o == options[i]
         IN CASE o.kind = "nil" -> processInitialOptionsLoop(m, options, i + 1, seenQuery)
              [] o.kind = "Query" ->
                    IF seenQuery THEN [m |-> m, err |-> ErrMultipleQueries]
                    ELSE IF checkForgedColumns(o.text) # NoError
                         THEN [m |-> m, err |-> checkForgedColumns(o.text)]
                    ELSE processInitialOptionsLoop(
                             [m EXCEPT !.defaultQuery = QueryPtr(SelectText(m.cols, o.text))],
                             options, i + 1, TRUE)
              [] o.kind = "ErrorOnUnknownColumns" ->
                    processInitialOptionsLoop([m EXCEPT !.errorOnUnknownColumns = (o.n # 0)],
                                              options, i + 1, seenQuery)
              [] o.kind = "ErrorOnUnMappedColumns" ->
                    processInitialOptionsLoop([m EXCEPT !.errorOnUnMappedColumns = (o.n # 0)],
                                              options, i + 1, seenQuery)
              [] o.kind = "StructPostProcessor" ->
                    processInitialOptionsLoop([m EXCEPT !.postProcessors = Append(@, o.sq)],
                                              options, i + 1, seenQuery)
              [] o.kind = "UseTagName" ->
                    processInitialOptionsLoop(
                        [m EXCEPT !.useTagName = IF o.sq # "" THEN o.sq ELSE @],
                        options, i + 1, seenQuery)
              [] o.kind = "ErrorTranslator" ->
                    processInitialOptionsLoop([m EXCEPT !.errorTranslator = CustomErrorTranslator],
                                              options, i + 1, seenQuery)
              [] OTHER -> [m |-> m, err |-> UnknownOption(o)]

\* NewStructMapper: the struct mapper, or ok = FALSE (nil) and the error
NewStructMapperOf(T, cols, options) ==
    IF ~T.isStruct
    THEN [ok |-> FALSE, m |-> StructMapperRec(T, cols), err |-> ErrNotStruct]
    ELSE LET r == processInitialOptionsLoop(StructMapperRec(T, cols), options, 1, FALSE)
             err == IF r.err # NoError THEN r.err ELSE checkDuplicateMappedColumns(r.m)
         IN [ok |-> err = NoError, m |-> r.m, err |-> err]

\* what structMapper.rowMapOptions returns
StructRowMapOptions(query, postProcessors, limiter, errorTranslator, err) ==
    [query |-> query, postProcessors |-> postProcessors, limiter |-> limiter,
     errorTranslator |-> errorTranslator, err |-> err]

\* the option loop of structMapper.rowMapOptions from option i on; qb is the
\* strings.Builder, r the named results so far (query is assigned only by
\* the final return)
RECURSIVE structRowMapOptionsLoop(_, _, _, _, _, _)
structRowMapOptionsLoop(m, options, i, r, qb, querySet) ==
    IF i > Len(options)
    THEN [r EXCEPT !.query = qb, !.err = IF querySet THEN NoError ELSE ErrNoDefaultQuery]
    ELSE LET o == options[i]
         IN CASE o.kind = "nil" -> structRowMapOptionsLoop(m, options, i + 1, r, qb, querySet)
              [] o.kind = "Query" ->
                    IF checkForgedColumns(o.text) # NoError
                    THEN [r EXCEPT !.err = checkForgedColumns(o.text)]
                    ELSE structRowMapOptionsLoop(m, options, i + 1, r,
                                                 SelectText(m.cols, o.text), TRUE)
              [] o.kind = "AddClause" ->
                    IF ~querySet THEN [r EXCEPT !.err = ErrAddClause]
                    ELSE structRowMapOptionsLoop(m, options, i + 1, r,
                                                 qb \o <<" ">> \o o.text, querySet)
              [] o.kind = "StructPostProcessor" ->
                    structRowMapOptionsLoop(m, options, i + 1,
                        [r EXCEPT !.postProcessors = Append(@, o.sq)], qb, querySet)
              [] o.kind = "Limiter" ->
                    structRowMapOptionsLoop(m, options, i + 1,
                        [r EXCEPT !.limiter = Limiter(FALSE, o.n)], qb, querySet)
              [] o.kind = "ErrorTranslator" ->
                    structRowMapOptionsLoop(m, options, i + 1,
                        [r EXCEPT !.errorTranslator = CustomErrorTranslator], qb, querySet)
              [] OTHER -> [r EXCEPT !.err = UnknownOption(o)]

\* structMapper.rowMapOptions
structRowMapOptions(m, options) ==
    structRowMapOptionsLoop(m, options, 1,
        StructRowMapOptions(<<>>, m.postProcessors, nullLimiter, m.errorTranslator, NoError),
        IF m.defaultQuery.set THEN m.defaultQuery.text ELSE <<>>,
        m.defaultQuery.set)

\* structMapper.mapColumns / buildFieldMapRecursive: columnMap takes a column
\* name to the field it is scanned into; knownCols marks the result set's
\* columns that have a field
structMapColumns(m, columns) ==
    LET names == {ColumnName(m.useTagName, m.T.fields[i]).name : i \in NamedFields(m)}
    IN [columnMap |-> [c \in names |->
                          CHOOSE i \in NamedFields(m) :
                              /\ ColumnName(m.useTagName, m.T.fields[i]).name = c
                              /\ \A j \in NamedFields(m) :
                                    ColumnName(m.useTagName, m.T.fields[j]).name = c => j <= i],
        knownCols |-> [k \in 1..Len(columns) |-> columns[k] \in names]]

\* structMapper.getFieldMappers, both critical sections: the struct mapper
\* afterwards, the accessors and the error
getFieldMappers(m, rs) ==
    IF m.mapped THEN [m |-> m, fieldPtrs |-> m.fieldMappers, err |-> m.mapError]
    ELSE IF rs.ctErr THEN [m |-> m, fieldPtrs |-> m.fieldMappers, err |-> ErrColumns]
    ELSE LET columns == [i \in 1..Len(rs.cols) |-> rs.cols[i].name]
             r == structMapColumns(m, columns)
             unmapped == {k \in DOMAIN columns : ~r.knownCols[k]}
             unknown == {c \in DOMAIN r.columnMap : \A k \in DOMAIN columns : columns[k] # c}
             m1 == [m EXCEPT !.mapped = TRUE]
         IN IF m.errorOnUnMappedColumns /\ unmapped # {}
            THEN [m |-> [m1 EXCEPT !.mapError = ErrUnmapped],
                  fieldPtrs |-> NilFieldMappers, err |-> ErrUnmapped]
            ELSE IF m.errorOnUnknownColumns /\ unknown # {}
            THEN [m |-> [m1 EXCEPT !.mapError = ErrUnknownColumns],
                  fieldPtrs |-> NilFieldMappers, err |-> ErrUnknownColumns]
            ELSE LET fm == [valid |-> TRUE, columns |-> columns, columnMap |-> r.columnMap]
                 IN [m |-> [m1 EXCEPT !.fieldMappers = fm], fieldPtrs |-> fm, err |-> NoError]

\* the zero value of a Go type
Zero(type) == IF type = "int64" THEN IntV("0") ELSE StrV("")

\* var item T
ZeroItem(T) == [i \in DOMAIN T.fields |-> Zero(T.fields[i].type)]

\* database/sql convertAssign of a driver value to a field of the type
ConvertAssign(type, src) ==
    CASE src.t = "nil" -> [v |-> Zero(type), err |-> ErrConvert]
      [] type = "int64" ->
            IF src.t = "int64" \/ (src.t \in {"string", "bytes"} /\ src.v \in NumericTexts)
            THEN [v |-> IntV(src.v), err |-> NoError]
            ELSE [v |-> Zero(type), err |-> ErrConvert]
      [] OTHER -> [v |-> StrV(src.v), err |-> NoError]

\* rows.Scan(fieldPtrs(&item)...): the accessors are those of the columns the
\* field mappers were built for; a column without a field is discarded
RECURSIVE StructScanFrom(_, _, _, _, _)
StructScanFrom(fp, T, raw, i, item) ==
    IF i > Len(raw) THEN [item |-> item, err |-> NoError]
    ELSE IF fp.columns[i] \notin DOMAIN fp.columnMap
    THEN StructScanFrom(fp, T, raw, i + 1, item)
    ELSE LET fld == fp.columnMap[fp.columns[i]]
             c == ConvertAssign(T.fields[fld].type, raw[i])
         IN IF c.err # NoError THEN [item |-> item, err |-> c.err]
            ELSE StructScanFrom(fp, T, raw, i + 1, [item EXCEPT ![fld] = c.v])

StructScan(fp, T, raw, item) ==
    IF Len(fp.columns) # Len(raw) THEN [item |-> item, err |-> ErrScanCount]
    ELSE StructScanFrom(fp, T, raw, 1, item)

\* for _, pp := range postProcessors { err = pp.PostProcess(ctx, db, &item) }
StructPostProcess(postProcessors) ==
    IF \E i \in DOMAIN postProcessors : postProcessors[i] = "sppErr"
    THEN ErrStructPostProcess ELSE NoError

\* return ..., translateError(err, errTranslator)
StructReturn(f, result, err) ==
    Done([f EXCEPT !.translated = IF err = NoError THEN @ ELSE Append(@, err)],
         result, translateError(err, f.o.errorTranslator))

\* []T as a value: nil until the first append
ItemsOf(result) == IF result = Nil THEN <<>> ELSE result.v

\* one row of a StructMapper read: Scan and the post-processors
StructRow(f, fp, T) ==
    LET s == StructScan(fp, T, f.rs.rows[f.pos], ZeroItem(T))
        pe == IF s.err # NoError THEN NoError ELSE StructPostProcess(f.o.postProcessors)
    IN [item |-> StructV(s.item), scanErr |-> s.err, ppErr |-> pe]

\* the loop of structMapper.Rows from its condition on; f.err is the local err
RECURSIVE structRowsLoop(_, _, _)
structRowsLoop(f, fp, T) ==
    IF f.err # NoError \/ ~HasNext(f) THEN StructReturn(f, f.result, f.err)
    ELSE LET g == [f EXCEPT !.pos = @ + 1, !.rowCount = @ + 1,
                            !.consulted = Append(@, <<f.rowCount + 1, Len(f.kept)>>)]
             h == [g EXCEPT !.scanned = Append(@, g.pos)]
             r == StructRow(g, fp, T)
         IN IF LimitReached(f.o.limiter, g.rowCount) THEN StructReturn(g, g.result, NoError)
            ELSE IF r.scanErr # NoError
            THEN structRowsLoop([h EXCEPT !.err = r.scanErr, !.rowErr = r.scanErr], fp, T)
            ELSE IF r.ppErr # NoError
            THEN StructReturn([h EXCEPT !.rowErr = r.ppErr], Nil, r.ppErr)
            ELSE structRowsLoop([h EXCEPT !.result = ListV(Append(ItemsOf(@), r.item)),
                                          !.kept = Append(@, g.pos)], fp, T)

\* the loop of structMapper.Iterate from its condition on
RECURSIVE structIterateLoop(_, _, _)
structIterateLoop(f, fp, T) ==
    IF ~f.cont \/ f.err # NoError \/ ~HasNext(f) THEN StructReturn(f, Nil, f.err)
    ELSE LET g == [f EXCEPT !.pos = @ + 1, !.scanned = Append(@, f.pos + 1)]
             r == StructRow(g, fp, T)
             hc == HandlerCall(f.handler, f.calls + 1)
         IN IF r.scanErr # NoError
            THEN structIterateLoop([g EXCEPT !.err = r.scanErr, !.rowErr = r.scanErr], fp, T)
            ELSE IF r.ppErr # NoError
            THEN StructReturn([g EXCEPT !.rowErr = r.ppErr], Nil, r.ppErr)
            ELSE structIterateLoop([g EXCEPT !.calls = @ + 1, !.cont = hc.cont,
                                             !.err = hc.err, !.kept = Append(@, g.pos)],
                                   fp, T)

\* the result of an operation that read no row: a nil []T or *T, the zero T
NoItem(op, T) == IF op = "StructExactlyOneRow" THEN StructV(ZeroItem(T)) ELSE Nil

\* structMapper.FirstRow and ExactlyOneRow after getFieldMappers succeeded
structOneRow(f, fp, T) ==
    LET exact == f.op = "StructExactlyOneRow"
        none == NoItem(f.op, T)
    IN IF ~HasNext(f) THEN StructReturn(f, none, IF exact THEN ErrNoRows ELSE NoError)
       ELSE LET g == [f EXCEPT !.pos = 1, !.scanned = <<1>>]
                r == StructRow(g, fp, T)
            IN IF r.scanErr # NoError
               THEN StructReturn([g EXCEPT !.rowErr = r.scanErr],
                                 IF exact THEN r.item ELSE Nil, r.scanErr)
               ELSE IF r.ppErr # NoError
               THEN StructReturn([g EXCEPT !.rowErr = r.ppErr],
                                 IF exact THEN r.item ELSE Nil, r.ppErr)
               ELSE StructReturn([g EXCEPT !.kept = <<1>>], r.item, NoError)

\* a read operation of the struct mapper m, whole: the struct mapper afterwards
\* and the frame with what the operation returned
StructRead(m, f) ==
    IF f.o.err # NoError THEN [m |-> m, f |-> StructReturn(f, NoItem(f.op, m.T), f.o.err)]
    ELSE IF f.rs.dbErr
    THEN [m |-> m, f |-> StructReturn([f EXCEPT !.queried = TRUE], NoItem(f.op, m.T), ErrDb)]
    ELSE LET g == [f EXCEPT !.queried = TRUE, !.cursor = "open"]
             r == getFieldMappers(m, f.rs)
         IN [m |-> r.m,
             f |-> IF r.err # NoError THEN StructReturn(g, NoItem(f.op, m.T), r.err)
                   ELSE CASE f.op = "StructRows" -> structRowsLoop(g, r.fieldPtrs, m.T)
                          [] f.op = "StructIterate" -> structIterateLoop(g, r.fieldPtrs, m.T)
                          [] OTHER -> structOneRow(g, r.fieldPtrs, m.T)]

\* the function Iterator returned, after its loop: rows.Close() and the
\* translation of the error, which goes nowhere
IteratorEnd(f) ==
    [f EXCEPT !.pc = "done", !.cursor = Closed(f),
              !.translated = IF f.err = NoError THEN @ ELSE Append(@, f.err)]

\* the loop of the function Iterator returned, from its condition on.  The
\* consumer's yield returns false from its call number stopAt on (0: never);
\* what yield returned is not looked at.  As the body of a range statement
\* (form "range") a yield called after it returned false panics, and no
\* deferred call closes the cursor; f.rowCount is i, f.err the captured err
RECURSIVE structIteratorLoop(_, _, _, _, _)
structIteratorLoop(f, fp, T, form, stopAt) ==
    IF f.err # NoError \/ ~HasNext(f) THEN IteratorEnd(f)
    ELSE LET g == [f EXCEPT !.pos = @ + 1]
             h == [g EXCEPT !.scanned = Append(@, g.pos)]
             r == StructRow(g, fp, T)
             ret == stopAt = 0 \/ f.calls + 1 < stopAt
             call == [i |-> f.rowCount, item |-> r.item, ret |-> ret]
         IN IF LimitReached(f.o.limiter, f.rowCount + 1) THEN IteratorEnd(g)
            ELSE IF r.scanErr # NoError
            THEN structIteratorLoop([h EXCEPT !.err = r.scanErr, !.rowErr = r.scanErr],
                                    fp, T, form, stopAt)
            ELSE IF r.ppErr # NoError
            THEN structIteratorLoop(
                     [h EXCEPT !.err = translateError(r.ppErr, f.o.errorTranslator),
                               !.rowErr = r.ppErr, !.translated = Append(@, r.ppErr),
                               !.rowCount = @ + 1],
                     fp, T, form, stopAt)
            ELSE IF form = "range" /\ ~f.cont
            THEN [h EXCEPT !.pc = "panic", !.calls = @ + 1, !.yielded = Append(@, call)]
            ELSE structIteratorLoop(
                     [h EXCEPT !.calls = @ + 1, !.cont = ret, !.yielded = Append(@, call),
                               !.kept = Append(@, g.pos), !.rowCount = @ + 1],
                     fp, T, form, stopAt)

\* ---------------------------------------------------------------- state
VARIABLES
    ctor,        \* the constructor call: done, which one, its options and its error
    mappers,     \* the mapper objects; mappers[1] is the one NewMapper returned
    smappers,    \* the struct mapper NewStructMapper returned, if any
    subq,        \* the SubQuery objects by name
    stack,       \* per goroutine: the frames of its read call, innermost last
    started,     \* number of top-level read calls started
    planBuilds,  \* per mapper object: how many times newColumnsInfo ran for it
    sqMappers,   \* per SubQuery: every mapper ever stored in its mapper field
    ext          \* the Extend call: done, its arguments, the mapper it was called
                 \* on as it was, the mapper it returned and its error

vars == <<ctor, mappers, smappers, subq, stack, started, planBuilds, sqMappers, ext>>

\* the innermost frame of goroutine p
Top(p) == stack[p][Len(stack[p])]
Running(p) == stack[p] # <<>>
At(p, pc) == Running(p) /\ Top(p).pc = pc

\* stack with the innermost frame of p replaced by f
WithTop(p, f) == [stack EXCEPT ![p] = [@ EXCEPT ![Len(@)] = f]]

\* the sub-queries a program may register or pass as options: one of each
\* shape that takes its arguments from columns no parent row has (orphan...),
\* the merge sub-queries with and without noOverwrite, the array and
\* object sub-queries with and without emptyNil and with errNoRow (strict),
\* and an array and a merge sub-query whose mappings put column a at the
\* path in
InMappings == [a |-> Mapping("", <<"in">>, FALSE, Nil, "", "")]
SubQueries ==
    [items |-> SubQueryRec("slice", "items", <<"FROM", " ", "items">>, <<"id">>,
                           FALSE, FALSE, NoMappings),
     orphan |-> SubQueryRec("object", "orphan", <<"FROM", " ", "orphans">>, <<"nope">>,
                            FALSE, FALSE, NoMappings),
     orphanSlice |-> SubQueryRec("slice", "orphans", <<"FROM", " ", "orphans">>,
                                 <<"id", "nope", "nada">>, FALSE, FALSE, NoMappings),
     orphanExact |-> SubQueryRec("exact", "orphan", <<"FROM", " ", "orphans">>,
                                 <<"nada", "nope">>, FALSE, FALSE, NoMappings),
     orphanMerge |-> SubQueryRec("merge", "", <<"FROM", " ", "orphans">>,
                                 <<"nope", "id">>, FALSE, FALSE, NoMappings),
     merge |-> SubQueryRec("merge", "", <<"FROM", " ", "extra">>, <<"id">>,
                           FALSE, FALSE, NoMappings),
     mergeKeep |-> SubQueryRec("merge", "", <<"FROM", " ", "extra">>, <<"id">>,
                               FALSE, TRUE, NoMappings),
     itemsNil |-> SubQueryRec("slice", "items", <<"FROM", " ", "items">>, <<"id">>,
                              TRUE, FALSE, NoMappings),
     detail |-> SubQueryRec("object", "detail", <<"FROM", " ", "extra">>, <<"id">>,
                            FALSE, FALSE, NoMappings),
     detailNil |-> SubQueryRec("object", "detail", <<"FROM", " ", "extra">>, <<"id">>,
                               TRUE, FALSE, NoMappings),
     strict |-> SubQueryRec("exact", "detail", <<"FROM", " ", "extra">>, <<"id">>,
                            FALSE, FALSE, NoMappings),
     nested |-> SubQueryRec("slice", "items", <<"FROM", " ", "extra">>, <<"id">>,
                            FALSE, FALSE, InMappings),
     mergeNested |-> SubQueryRec("merge", "", <<"FROM", " ", "extra">>, <<"id">>,
                                 FALSE, FALSE, InMappings)]

Init ==
    /\ ctor = [done |-> FALSE, kind |-> "", options |-> <<>>, err |-> NoError]
    /\ mappers = <<>>
    /\ smappers = <<>>
    /\ subq = SubQueries
    /\ stack = [p \in Procs |-> <<>>]
    /\ started = 0
    /\ planBuilds = <<>>
    /\ sqMappers = [q \in DOMAIN SubQueries |-> <<>>]
    /\ ext = [done |-> FALSE, addColumns |-> <<>>, mappings |-> NoMappings,
              options |-> <<>>, orig |-> NilMapper, ok |-> FALSE, m |-> NilMapper,
              err |-> NoError]

\* NewMapper(cols, options...): on error no mapper exists
NewMapper(cols, options) ==
    /\ ~ctor.done
    /\ LET r == newMapper(cols, options)
       IN /\ ctor' = [done |-> TRUE, kind |-> "Mapper", options |-> options, err |-> r.err]
          /\ mappers' = IF r.ok THEN <<r.m>> ELSE <<>>
          /\ planBuilds' = IF r.ok THEN <<0>> ELSE <<>>
    /\ UNCHANGED <<ext, smappers, subq, stack, started, sqMappers>>

\* NewStructMapper[T](cols, options...): on error no struct mapper exists
NewStructMapper(T, cols, options) ==
    /\ ~ctor.done
    /\ LET r == NewStructMapperOf(T, cols, options)
       IN /\ ctor' = [done |-> TRUE, kind |-> "StructMapper", options |-> options,
                      err |-> r.err]
          /\ smappers' = IF r.ok THEN <<r.m>> ELSE <<>>
    /\ UNCHANGED <<ext, mappers, subq, stack, started, planBuilds, sqMappers>>

\* m.Extend(addColumns, mappings, options...) called between the read calls
ExtendMapper(addColumns, mappings, options) ==
    /\ mappers # <<>>
    /\ ~ext.done
    /\ \A p \in Procs : ~Running(p)
    /\ LET r == Extend(mappers[1], addColumns, mappings, options)
       IN /\ ext' = [done |-> TRUE, addColumns |-> addColumns, mappings |-> mappings,
                     options |-> options, orig |-> mappers[1], ok |-> r.ok,
                     m |-> IF r.ok THEN r.m ELSE NilMapper, err |-> r.err]
          /\ mappers' = [mappers EXCEPT ![1] = r.orig]
    /\ UNCHANGED <<ctor, smappers, subq, stack, started, planBuilds, sqMappers>>

\* goroutine p calls read operation op of the struct mapper; the operation
\* shares nothing with another goroutine but the field mappers, and runs whole
StructCall(p, op, options, rs, handler) ==
    /\ smappers # <<>>
    /\ ~Running(p)
    /\ started < MaxCalls
    /\ started' = started + 1
    /\ LET r == StructRead(smappers[1],
                           [Frame(0, op, structRowMapOptions(smappers[1], options),
                                  rs, handler, 0)
                            EXCEPT !.opts = options])
       IN /\ smappers' = <<r.m>>
          /\ stack' = [stack EXCEPT ![p] = <<r.f>>]
    /\ UNCHANGED <<ext, ctor, mappers, subq, planBuilds, sqMappers>>

\* goroutine p calls Iterator of the struct mapper: the query is run and the
\* function that reads the cursor is returned (pc "iterator", cursor open),
\* or the error is translated and dropped and an empty function is returned
StructIterator(p, options, rs) ==
    /\ smappers # <<>>
    /\ ~Running(p)
    /\ started < MaxCalls
    /\ started' = started + 1
    /\ LET o == structRowMapOptions(smappers[1], options)
           f == [Frame(0, "StructIterator", o, rs, Handler(0, 0), 0)
                 EXCEPT !.opts = options, !.pc = "iterator"]
       IN stack' = [stack EXCEPT ![p] =
             <<IF o.err # NoError
               THEN [f EXCEPT !.err = o.err, !.translated = <<o.err>>]
               ELSE IF rs.dbErr
               THEN [f EXCEPT !.queried = TRUE, !.err = ErrDb, !.translated = <<ErrDb>>]
               ELSE [f EXCEPT !.queried = TRUE, !.cursor = "open"]>>]
    /\ UNCHANGED <<ext, ctor, mappers, smappers, subq, planBuilds, sqMappers>>

\* the consumer invokes the function Iterator returned, as the body of a
\* range statement or with a yield function of its own; the function runs
\* whole
IteratorRange(p, form, stopAt) ==
    /\ At(p, "iterator")
    /\ LET f == Top(p)
           r == getFieldMappers(smappers[1], f.rs)
       IN IF f.cursor # "open"
          THEN /\ stack' = WithTop(p, [f EXCEPT !.pc = "done"])
               /\ UNCHANGED smappers
          ELSE /\ smappers' = <<r.m>>
               /\ stack' = WithTop(p,
                     IF r.err # NoError THEN IteratorEnd([f EXCEPT !.err = r.err])
                     ELSE structIteratorLoop(f, r.fieldPtrs, smappers[1].T, form, stopAt))
    /\ UNCHANGED <<ext, ctor, mappers, subq, started, planBuilds, sqMappers>>

\* the consumer lets go of the function Iterator returned without invoking it
IteratorDrop(p) ==
    /\ At(p, "iterator")
    /\ stack' = WithTop(p, [Top(p) EXCEPT !.pc = "dropped"])
    /\ UNCHANGED <<ext, smappers, ctor, mappers, subq, started, planBuilds, sqMappers>>

\* goroutine p calls read operation op of the mapper with the given options;
\* rs is what the database answers to its query.  What rowMapOptions wrote
\* through its reference to the mapper's own mappings is in the mapper
Call(p, op, options, rs, handler, wfail) ==
    /\ mappers # <<>>
    /\ ~Running(p)
    /\ started < MaxCalls
    /\ started' = started + 1
    /\ LET o == rowMapOptions(mappers[1], <<>>, options)
       IN /\ stack' = [stack EXCEPT ![p] =
                         <<Enter([Frame(1, op, o, rs, handler, wfail)
                                  EXCEPT !.opts = options])>>]
          /\ mappers' = [mappers EXCEPT ![1].mappings = o.own]
    /\ UNCHANGED <<ext, smappers, ctor, subq, planBuilds, sqMappers>>

\* mapColumns, the read-locked section: is there a plan
MapColumnsRLock(p) ==
    /\ At(p, "mapColumns")
    /\ stack' = WithTop(p, [Top(p) EXCEPT !.pc =
                    IF mappers[Top(p).m].columnsInfo.valid THEN "mapColumnsHit"
                    ELSE "mapColumnsMiss"])
    /\ UNCHANGED <<ext, smappers, ctor, mappers, subq, started, planBuilds, sqMappers>>

\* MapColumnsHit with a reader planned from the call's own result set and
\* mappings
MapColumnsHitOwn(p) ==
    /\ At(p, "mapColumnsHit")
    /\ stack' = WithTop(p, AfterMapColumns(Top(p),
                    reader(newColumnsInfo(Top(p).rs, Top(p).o.mappings).info)))
    /\ UNCHANGED <<ext, smappers, ctor, mappers, subq, started, planBuilds, sqMappers>>

\* mapColumns line 416: m.columnsInfo is read again after RUnlock, outside any
\* lock; calling reader() on a nil plan dereferences nil
MapColumnsHit(p) ==
    /\ At(p, "mapColumnsHit")
    /\ LET ci == mappers[Top(p).m].columnsInfo
       IN stack' = WithTop(p, IF ci.valid THEN AfterMapColumns(Top(p), reader(ci))
                              ELSE Panic(Top(p)))
    /\ UNCHANGED <<ext, smappers, ctor, mappers, subq, started, planBuilds, sqMappers>>

\* mapColumns, the write-locked section: the plan is built and stored without
\* looking at m.columnsInfo again, then reader() is called on the stored plan
MapColumnsBuild(p) ==
    /\ At(p, "mapColumnsMiss")
    /\ LET f == Top(p)
           r == newColumnsInfo(f.rs, f.o.mappings)
       IN /\ mappers' = [mappers EXCEPT ![f.m].columnsInfo = r.info]
          /\ planBuilds' = [planBuilds EXCEPT ![f.m] = @ + 1]
          /\ stack' = WithTop(p, IF r.info.valid THEN AfterMapColumns(f, reader(r.info))
                                 ELSE Panic([f EXCEPT !.ctFailed = r.err # NoError]))
    /\ UNCHANGED <<ext, smappers, ctor, subq, started, sqMappers>>

\* the loop condition of Rows, WriteRows and Iterate and the loop body up to
\* the call of mapRow
NextRow(p) ==
    /\ At(p, "loop")
    /\ stack' = WithTop(p, Fetch(Top(p)))
    /\ UNCHANGED <<ext, smappers, ctor, mappers, subq, started, planBuilds, sqMappers>>

\* mapRow: rows.Scan and the column loop
MapRowScan(p) ==
    /\ At(p, "mapRow")
    /\ LET f == Top(p)
           r == mapRowScan(f.cr, f.rs.rows[f.pos], f.o.mappings, f.o.exclusions,
                           mappers[f.m].subPath)
           g == [f EXCEPT !.scanned = Append(@, f.pos),
                          !.ppCalled = @ \o [k \in 1..Len(r.called) |->
                                                [pos |-> f.pos, col |-> r.called[k].col,
                                                 row |-> r.called[k].row,
                                                 value |-> r.called[k].value]]]
       IN stack' = WithTop(p, IF r.err # NoError THEN RowFailed(g, r.err)
                              ELSE [g EXCEPT !.pc = "subQueries", !.row = r.row.v,
                                             !.sqi = 1])
    /\ UNCHANGED <<ext, smappers, ctor, mappers, subq, started, planBuilds, sqMappers>>

\* the sub-query a frame in the sub-query loop of mapRow is at
CurrentSubQuery(f) == f.o.subQueries[f.sqi]

\* mapRow's sub-query loop: a nil or excluded sub-query is passed over; for any
\* other one Execute starts with the read-locked section of rowMapper
SubQueryRLock(p) ==
    /\ At(p, "subQueries")
    /\ Top(p).sqi <= Len(Top(p).o.subQueries)
    /\ LET f == Top(p)
           id == CurrentSubQuery(f)
           run == id # "" /\ Executes(subq[id].propertyName, f.o.exclusions)
       IN stack' = WithTop(p,
             IF ~run THEN [f EXCEPT !.sqi = @ + 1]
             ELSE [f EXCEPT !.pc = IF subq[id].mapper # 0 THEN "rowMapperHit"
                                   ELSE "rowMapperMiss",
                            !.executes = Append(@,
                                [pos |-> f.pos, id |-> id, row |-> f.row,
                                 read |-> FALSE, ret |-> FALSE, result |-> Nil,
                                 err |-> NoError, after |-> f.row,
                                 rs |-> ResultSet(<<>>, <<>>, FALSE, FALSE)])])
    /\ UNCHANGED <<ext, smappers, ctor, mappers, subq, started, planBuilds, sqMappers>>

\* Execute from the return of rowMapper on: getArgs, then the read operation
\* of the nested mapper rm is entered with the exclusions as its only option
\* (an option that writes no mapping)
ExecuteCall(p, f, sq, rm, mrec, rs) ==
    LET argErr == getArgs(sq.argColumns, f.row, 1)
        nested == Frame(rm, ExecuteOp(sq.shape),
                        rowMapOptions(mrec, sq.query, <<ExclusionsOpt(f.o.exclusions)>>),
                        rs, Handler(0, 0), 0)
    IN IF argErr # NoError THEN WithTop(p, RowFailed(f, argErr))
       ELSE [stack EXCEPT ![p] =
                <<[f EXCEPT !.pc = "execute", !.rm = rm,
                            !.executes[Len(f.executes)].read = TRUE],
                  Enter(nested)>>]

\* subPathOf with no prefix for any sub-query
subPathNone(sq) == <<>>

\* if sq.propertyName != "" { sq.mapper.subPath = []string{sq.propertyName} }
subPathOf(sq) == IF sq.propertyName # "" THEN <<sq.propertyName>> ELSE <<>>

\* rowMapper line 189: sq.mapper is read again after RUnlock and returned
RowMapperHit(p, rs) ==
    /\ At(p, "rowMapperHit")
    /\ LET f == Top(p)
           sq == subq[CurrentSubQuery(f)]
       IN stack' = ExecuteCall(p, f, sq, sq.mapper, mappers[sq.mapper], rs)
    /\ UNCHANGED <<ext, smappers, ctor, mappers, subq, started, planBuilds, sqMappers>>

\* rowMapper, the write-locked section: a new mapper is made from the
\* sub-query's mappings and stored without looking at sq.mapper again
RowMapperBuild(p, rs) ==
    /\ At(p, "rowMapperMiss")
    /\ LET f == Top(p)
           id == CurrentSubQuery(f)
           sq == subq[id]
           made == newMapper(<<>>, <<MappingsOpt(sq.mappings)>>).m
           mrec == [made EXCEPT !.subQuery = id, !.subPath = subPathOf(sq)]
           rm == Len(mappers) + 1
       IN /\ mappers' = Append(mappers, mrec)
          /\ planBuilds' = Append(planBuilds, 0)
          /\ subq' = [subq EXCEPT ![id].mapper = rm]
          /\ sqMappers' = [sqMappers EXCEPT ![id] = Append(@, rm)]
          /\ stack' = ExecuteCall(p, f, sq, rm, mrec, rs)
    /\ UNCHANGED <<ext, smappers, ctor, started>>

\* the nested read returned to Execute, and Execute to mapRow
SubQueryReturn(p) ==
    /\ Len(stack[p]) = 2
    /\ Top(p).pc \in {"done", "panic"}
    /\ LET child == Top(p)
           f == stack[p][1]
           sq == subq[CurrentSubQuery(f)]
           g == [f EXCEPT !.executes[Len(f.executes)] =
                    [@ EXCEPT !.ret = child.pc = "done", !.result = child.result,
                              !.err = child.err, !.rs = child.rs,
                              !.after = IF child.pc = "done" /\ child.err = NoError
                                        THEN ExecuteStore(sq, f.row, child.result)
                                        ELSE f.row]]
       IN stack' = [stack EXCEPT ![p] =
             <<IF child.pc = "panic" THEN Panic(g)
               ELSE IF child.err # NoError THEN RowFailed(g, child.err)
               ELSE [g EXCEPT !.pc = "subQueries", !.sqi = @ + 1,
                              !.row = ExecuteStore(sq, f.row, child.result)]>>]
    /\ UNCHANGED <<ext, smappers, ctor, mappers, subq, started, planBuilds, sqMappers>>

\* mapRow's row post-processor loop and what the operation does with the row
MapRowPostProcess(p) ==
    /\ At(p, "subQueries")
    /\ Top(p).sqi > Len(Top(p).o.subQueries)
    /\ LET f == Top(p)
           r == mapRowPostProcesses(1, f.row, f.o.postProcesses, f.o.exclusions)
           g == [f EXCEPT !.rpCalled =
                    @ \o [i \in 1..Len(r.called) |-> <<f.pos, r.called[i]>>]]
       IN stack' = WithTop(p, IF r.err # NoError THEN RowFailed(g, r.err)
                              ELSE RowDone(g, r.row))
    /\ UNCHANGED <<ext, smappers, ctor, mappers, subq, started, planBuilds, sqMappers>>

\* the top-level operation has returned (or panicked) and p's caller goes on
Return(p) ==
    /\ Len(stack[p]) = 1
    /\ Top(p).pc \in {"done", "panic", "dropped"}
    /\ stack' = [stack EXCEPT ![p] = <<>>]
    /\ UNCHANGED <<ext, smappers, ctor, mappers, subq, started, planBuilds, sqMappers>>

\* ---------------------------------------------------------------- scenarios
Ops == {"Rows", "FirstRow", "ExactlyOneRow", "WriteRows", "WriteFirstRow",
        "WriteExactlyOneRow", "Iterate"}

\* the column list and the query texts the programs use
StarCols == <<"*">>
FromT == <<"FROM", " ", "t">>
FromU == <<"FROM", " ", "u">>

\* column metadata of the tables t (ColsA), u (ColsB) and items (ColsS)
ColsA == <<ColumnType("id", "INT", "int64"), ColumnType("a", "VARCHAR", "string")>>
ColsB == <<ColumnType("id", "INT", "int64"), ColumnType("b", "VARCHAR", "string")>>
ColsS == <<ColumnType("n", "INT", "int64")>>

\* result sets of n rows
RsA(n) == ResultSet(ColsA, [i \in 1..n |-> <<IntV(ToString(i)), BytesV("x")>>], FALSE, FALSE)
RsB(n) == ResultSet(ColsB, [i \in 1..n |-> <<IntV(ToString(i)), BytesV("y")>>], FALSE, FALSE)
RsS(n) == ResultSet(ColsS, [i \in 1..n |-> <<IntV(ToString(i))>>], FALSE, FALSE)
\* a cursor whose ColumnTypes() fails, and a query the database rejects
RsCtErr == [RsA(1) EXCEPT !.ctErr = TRUE]
RsDbErr == [RsA(0) EXCEPT !.dbErr = TRUE]

\* a handler that never stops and never fails
NoHandler == Handler(0, 0)

\* ---------------------------------------------------------------- Spec
\* two goroutines share one mapper that has a default query and the array
\* sub-query "items"
SharedOptions == <<QueryOpt(FromT), SubQueryOpt("items")>>
SharedCallOptions == {<<>>}
SharedTopSets == {RsA(1)}
SharedSubSets == {RsS(1)}

Next ==
    \/ NewMapper(StarCols, SharedOptions)
    \/ \E p \in Procs :
        \/ \E op \in Ops, options \in SharedCallOptions, rs \in SharedTopSets :
              Call(p, op, options, rs, NoHandler, 0)
        \/ MapColumnsRLock(p)
        \/ MapColumnsHit(p)
        \/ MapColumnsBuild(p)
        \/ NextRow(p)
        \/ MapRowScan(p)
        \/ SubQueryRLock(p)
        \/ \E rs \in SharedSubSets : RowMapperHit(p, rs)
        \/ \E rs \in SharedSubSets : RowMapperBuild(p, rs)
        \/ SubQueryReturn(p)
        \/ MapRowPostProcess(p)
        \/ Return(p)

Spec == Init /\ [][Next]_vars

\* ---------------------------------------------------------------- SpecCall
\* one goroutine makes read calls one after the other, with every kind of
\* option, database answer, handler and writer
Main == "g1"

\* largest number of rows of a top-level result set
MaxRows == 2

\* a Query text that starts, after white space, with a comma
ForgedText == <<" ", ",", "x", " ", "FROM", " ", "t">>

\* mappings whose PostProcess fails, and whose custom scanner rejects the
\* values of column a
FailingPostProcess == [a |-> Mapping("", <<>>, FALSE, Nil, "ppErr", "")]
FailingScanner == [a |-> Mapping("", <<>>, FALSE, Nil, "", "BoolColumn")]

\* the struct types NewStructMapper is instantiated with
TRow == StructType(TRUE, <<StructField([sql |-> "id"], "int64"),
                          StructField([sql |-> "a"], "string")>>)
TInt == StructType(FALSE, <<>>)

StructOps == {"StructRows", "StructIterate", "StructFirstRow", "StructExactlyOneRow"}

StructCtorOptionLists ==
    {<<QueryOpt(FromT)>>,
     <<QueryOpt(ForgedText)>>,
     <<QueryOpt(FromT), ErrorTranslatorOpt>>,
     <<QueryOpt(FromT), ErrorOnUnMappedColumnsOpt(1), ErrorOnUnknownColumnsOpt(1)>>,
     <<QueryOpt(FromT), UseTagNameOpt("db"), StructPostProcessorOpt("sppOk")>>}

\* a result set whose first row has a NULL id
RsNull == [RsA(1) EXCEPT !.rows = <<<<Nil, BytesV("x")>>>>]

StructCalls ==
    {<<options, rs>> :
        options \in {<<>>, <<ErrorTranslatorOpt>>, <<QueryOpt(ForgedText)>>,
                     <<StructPostProcessorOpt("sppErr")>>,
                     <<ErrorTranslatorOpt, StructPostProcessorOpt("sppErr")>>,
                     <<LimiterOpt(1)>>, <<UnknownOpt>>},
        rs \in {RsA(0), RsA(MaxRows), RsB(1), RsNull, RsCtErr, RsDbErr}}

CtorOptionLists ==
    {<<QueryOpt(FromT), SubQueryOpt("items")>>,
     <<QueryOpt(ForgedText)>>,
     <<QueryOpt(FromT), ErrorTranslatorOpt>>}

\* the calls of the scenario: the options of the call and the database's
\* answer to its query.  Plain and limited reads of 0..MaxRows rows; reads in
\* which a row fails to assemble; options the mapper may refuse; a result set
\* of another shape, failing column metadata and a failing query
PlainCalls ==
    {<<options, RsA(n)>> :
        options \in {<<>>} \cup {<<LimiterOpt(k)>> : k \in 0..MaxLimit}, n \in 0..MaxRows}
FailingRowCalls ==
    {<<options, RsA(n)>> :
        options \in {<<MappingsOpt(FailingPostProcess)>>, <<MappingsOpt(FailingScanner)>>,
                     <<RowPPOpt(RowPP("", "rpErr"))>>, <<SubQueryOpt("orphan")>>},
        n \in 1..MaxRows}
OptionCalls == {<<options, RsA(1)>> : options \in {<<QueryOpt(ForgedText)>>, <<ErrorTranslatorOpt>>}}
OtherCalls == {<<<<>>, rs>> : rs \in {RsB(1), RsCtErr, RsDbErr}}
Calls == PlainCalls \cup FailingRowCalls \cup OptionCalls \cup OtherCalls

SubSets == {RsS(0), RsS(1), RsDbErr}
Handlers(op) == IF op \in {"Iterate", "StructIterate"} THEN {NoHandler, Handler(1, 0), Handler(0, 1)}
                ELSE {NoHandler}
Wfails(op) == IF op \in {"WriteRows", "WriteFirstRow", "WriteExactlyOneRow"}
              THEN {0, 1, 2} ELSE {0}

NextCall ==
    \/ \E options \in CtorOptionLists : NewMapper(StarCols, options)
    \/ \E T \in {TRow, TInt}, options \in StructCtorOptionLists :
          NewStructMapper(T, StarCols, options)
    \/ \E op \in StructOps, c \in StructCalls :
          \E handler \in Handlers(op) : StructCall(Main, op, c[1], c[2], handler)
    \/ \E op \in Ops, c \in Calls :
          \E handler \in Handlers(op), wfail \in Wfails(op) :
              Call(Main, op, c[1], c[2], handler, wfail)
    \/ MapColumnsRLock(Main)
    \/ MapColumnsHit(Main)
    \/ MapColumnsBuild(Main)
    \/ NextRow(Main)
    \/ MapRowScan(Main)
    \/ SubQueryRLock(Main)
    \/ \E rs \in SubSets : RowMapperHit(Main, rs)
    \/ \E rs \in SubSets : RowMapperBuild(Main, rs)
    \/ SubQueryReturn(Main)
    \/ MapRowPostProcess(Main)
    \/ Return(Main)

SpecCall == Init /\ [][NextCall]_vars

\* ---------------------------------------------------------------- SpecRow
\* one goroutine reads rows of the table r (id, a, b: b is NULL in RsR and "y"
\* in RsRy) through a mapper constructed with mappings for the columns a and b
ColsR == <<ColumnType("id", "INT", "int64"), ColumnType("a", "VARCHAR", "string"),
           ColumnType("b", "VARCHAR", "string")>>
RsR(n) == ResultSet(ColsR, [i \in 1..n |-> <<IntV(ToString(i)), BytesV("x"), Nil>>],
                    FALSE, FALSE)
RsRy(n) == ResultSet(ColsR, [i \in 1..n |-> <<IntV(ToString(i)), BytesV("x"), BytesV("y")>>],
                     FALSE, FALSE)

RowOps == {"Rows", "FirstRow"}

\* AllowedProperties{"id": nil, "a": nil}
OnlyIdA == Excluder("allowed", {"id", "a"}, {}, {})

\* the paths and the mappings of the columns a and b
Paths == {<<>>, <<"sub">>, <<"sub", "deep">>, <<"other">>}
NullDefaults == {Nil, StrV("dflt")}
PathMappings ==
    {[a |-> Mapping("", pa, FALSE, Nil, "", ""), b |-> Mapping(name, pb, omit, def, pp, "")] :
        pa \in Paths, pb \in Paths, omit \in BOOLEAN, def \in NullDefaults,
        pp \in {"", "ppReplace"}, name \in {"", "bee"}}

RowCalls ==
    {<<xs, rs>> : xs \in {<<>>, <<ExcluderOpt(OnlyIdA)>>}, rs \in {RsR(1), RsRy(1)}}

NextRows ==
    \/ \E m \in PathMappings : NewMapper(StarCols, <<QueryOpt(FromT), MappingsOpt(m)>>)
    \/ \E op \in RowOps, c \in RowCalls : Call(Main, op, c[1], c[2], NoHandler, 0)
    \/ MapColumnsRLock(Main)
    \/ MapColumnsHit(Main)
    \/ MapColumnsBuild(Main)
    \/ NextRow(Main)
    \/ MapRowScan(Main)
    \/ MapRowPostProcess(Main)
    \/ Return(Main)

SpecRow == Init /\ [][NextRows]_vars

\* ---------------------------------------------------------------- SpecSub
\* one goroutine reads rows of the table r with sub-queries of every shape,
\* row post-processors and exclusions; the merge sub-queries read the table
\* extra (a, c)
ColsM == <<ColumnType("a", "VARCHAR", "string"), ColumnType("c", "VARCHAR", "string")>>
RsM(n) == ResultSet(ColsM, [i \in 1..n |-> <<BytesV("z"), BytesV("w")>>], FALSE, FALSE)

\* a ConditionalExclude that excludes the property items of the top-level row
NotItems == Excluder("cond", {}, {}, {<<"items", <<>>>>})

\* row post-processors that set the property initials: one declares it, the
\* other declares no property
SetsInitials == RowPP("initials", "rpSet")
SetsUndeclared == RowPP("", "rpSet")

SubCtorOptionLists ==
    {<<QueryOpt(FromT)>>,
     <<QueryOpt(FromT), SubQueryOpt("items"), RowPPOpt(SetsInitials)>>}

\* the result sets the nested read of a sub-query is answered with
SubSetsOf(id) ==
    IF subq[id].shape = "slice" THEN {RsS(0), RsS(1)} ELSE {RsM(0), RsM(1), RsDbErr}

ArgCalls ==
    {<<<<SubQueryOpt(q)>>, RsR(1)>> :
        q \in {"orphan", "orphanSlice", "orphanExact", "orphanMerge"}}
MergeCalls == {<<<<SubQueryOpt(q)>>, RsR(MaxRows)>> : q \in {"merge", "mergeKeep"}}
Provided ==
    {SubQueryOpt("items"), SubQueryOpt("merge"), RowPPOpt(SetsInitials),
     RowPPOpt(SetsUndeclared)}
ExclusionCalls ==
    {<<<<ExcluderOpt(x), o>>, RsR(1)>> : x \in {OnlyIdA, NotItems}, o \in Provided}
        \cup {<<<<o>>, RsR(1)>> : o \in Provided}
SubCalls == ArgCalls \cup MergeCalls \cup ExclusionCalls

NextSub ==
    \/ \E options \in SubCtorOptionLists : NewMapper(StarCols, options)
    \/ \E op \in RowOps, c \in SubCalls : Call(Main, op, c[1], c[2], NoHandler, 0)
    \/ MapColumnsRLock(Main)
    \/ MapColumnsHit(Main)
    \/ MapColumnsBuild(Main)
    \/ NextRow(Main)
    \/ MapRowScan(Main)
    \/ SubQueryRLock(Main)
    \/ \E id \in DOMAIN SubQueries : \E rs \in SubSetsOf(id) :
          At(Main, "rowMapperHit") /\ CurrentSubQuery(Top(Main)) = id /\ RowMapperHit(Main, rs)
    \/ \E id \in DOMAIN SubQueries : \E rs \in SubSetsOf(id) :
          At(Main, "rowMapperMiss") /\ CurrentSubQuery(Top(Main)) = id /\ RowMapperBuild(Main, rs)
    \/ SubQueryReturn(Main)
    \/ MapRowPostProcess(Main)
    \/ Return(Main)

SpecSub == Init /\ [][NextSub]_vars

\* ---------------------------------------------------------------- SpecOpts
\* one goroutine constructs a mapper from every kind of option list, valid or
\* not, and makes read calls with option lists of every kind
Where1 == <<"WHERE", " ", "id", "=", "?">>
OrderBy == <<"ORDER", " ", "BY", " ", "id">>

\* mappings given at construction and mappings given with a call
BaseMappings == [a |-> Mapping("alpha", <<>>, FALSE, Nil, "", "")]
CallMappings == [a |-> Mapping("", <<"sub">>, FALSE, Nil, "", ""),
                 id |-> Mapping("key", <<>>, FALSE, Nil, "", "")]

\* a mapping given with a call that decodes column a with BoolColumn
ScanMappings == [a |-> Mapping("", <<>>, FALSE, Nil, "", "BoolColumn")]

OptCtorCalls ==
    {<<StarCols, options>> :
        options \in {<<>>,
                     <<QueryOpt(FromT)>>,
                     <<NilOpt, QueryOpt(FromT), NilOpt>>,
                     <<QueryOpt(FromT), QueryOpt(FromU)>>,
                     <<UnknownOpt>>,
                     <<QueryOpt(FromT), UnknownIntOpt, UnknownOpt>>,
                     <<AddClauseOpt(Where1)>>,
                     <<NilOpt, NilOpt>>,
                     <<MappingsOpt(BaseMappings), QueryOpt(FromT), SubQueryOpt("items"),
                       RowPPOpt(SetsInitials)>>}}
        \cup {<<<<>>, <<QueryOpt(FromT)>>>>}

\* every list of at most three Query and AddClause options
QueryAlphabet == {QueryOpt(FromU), AddClauseOpt(Where1), AddClauseOpt(OrderBy)}
QueryLists ==
    {<<>>} \cup {<<x>> : x \in QueryAlphabet}
           \cup {<<x, y>> : x \in QueryAlphabet, y \in QueryAlphabet}
           \cup {<<x, y, z>> : x \in QueryAlphabet, y \in QueryAlphabet, z \in QueryAlphabet}

\* one option of each other kind, and the pairs of the options that are
\* ignored, refused or merged
OtherAlphabet ==
    {NilOpt, UnknownOpt, UnknownIntOpt, UseDecimalsOpt(1), MappingsOpt(CallMappings),
     MappingsOpt(ScanMappings), SubQueryOpt("merge"), RowPPOpt(SetsUndeclared),
     ExcluderOpt(OnlyIdA), LimiterOpt(1)}
PairAlphabet ==
    {NilOpt, UnknownOpt, UnknownIntOpt, MappingsOpt(CallMappings), AddClauseOpt(Where1)}
OtherLists ==
    {<<x>> : x \in OtherAlphabet} \cup {<<x, y>> : x \in PairAlphabet, y \in PairAlphabet}

OptCalls == QueryLists \cup OtherLists

\* the result set the nested read of a sub-query is answered with
OptSubSetsOf(id) == IF subq[id].shape = "slice" THEN {RsS(1)} ELSE {RsM(1)}

NextOpts ==
    \/ \E c \in OptCtorCalls : NewMapper(c[1], c[2])
    \/ \E op \in RowOps, options \in OptCalls : Call(Main, op, options, RsA(1), NoHandler, 0)
    \/ MapColumnsRLock(Main)
    \/ MapColumnsHit(Main)
    \/ MapColumnsBuild(Main)
    \/ NextRow(Main)
    \/ MapRowScan(Main)
    \/ SubQueryRLock(Main)
    \/ \E id \in DOMAIN SubQueries : \E rs \in OptSubSetsOf(id) :
          At(Main, "rowMapperHit") /\ CurrentSubQuery(Top(Main)) = id /\ RowMapperHit(Main, rs)
    \/ \E id \in DOMAIN SubQueries : \E rs \in OptSubSetsOf(id) :
          At(Main, "rowMapperMiss") /\ CurrentSubQuery(Top(Main)) = id /\ RowMapperBuild(Main, rs)
    \/ SubQueryReturn(Main)
    \/ MapRowPostProcess(Main)
    \/ Return(Main)

SpecOpts == Init /\ [][NextOpts]_vars

\* ---------------------------------------------------------------- SpecExtend
\* one goroutine constructs a mapper, extends it once, before, between or
\* after read calls without options of the original mapper
ExtCtorCalls ==
    {<<StarCols, <<QueryOpt(FromT)>>>>,
     <<<<>>, <<>>>>,
     <<<<"a">>, <<QueryOpt(FromT), UseDecimalsOpt(0)>>>>,
     <<StarCols, <<MappingsOpt(BaseMappings), QueryOpt(FromT), SubQueryOpt("items"),
                   RowPPOpt(SetsInitials)>>>>}

ExtAddColumns == {<<>>, <<"b">>, <<"b", "c">>}
ExtMappings == {NoMappings, CallMappings}
ExtOptionLists ==
    {<<>>,
     <<QueryOpt(FromU)>>,
     <<QueryOpt(FromU), QueryOpt(FromT)>>,
     <<NilOpt, RowPPOpt(SetsUndeclared), SubQueryOpt("merge"), QueryOpt(FromU),
       MappingsOpt(ScanMappings)>>,
     <<SubQueryOpt("merge"), UnknownOpt, QueryOpt(FromU)>>}

NextExtend ==
    \/ \E c \in ExtCtorCalls : NewMapper(c[1], c[2])
    \/ \E addColumns \in ExtAddColumns, mappings \in ExtMappings, options \in ExtOptionLists :
          ExtendMapper(addColumns, mappings, options)
    \/ \E op \in RowOps : Call(Main, op, <<>>, RsA(2), NoHandler, 0)
    \/ MapColumnsRLock(Main)
    \/ MapColumnsHit(Main)
    \/ MapColumnsBuild(Main)
    \/ NextRow(Main)
    \/ MapRowScan(Main)
    \/ SubQueryRLock(Main)
    \/ \E rs \in {RsS(1)} : RowMapperHit(Main, rs)
    \/ \E rs \in {RsS(1)} : RowMapperBuild(Main, rs)
    \/ SubQueryReturn(Main)
    \/ MapRowPostProcess(Main)
    \/ Return(Main)

SpecExtend == Init /\ [][NextExtend]_vars

\* ---------------------------------------------------------------- SpecShape
\* one goroutine reads a row of the table t with an array or object
\* sub-query, with and without emptyNil and errNoRow, whose nested read is
\* answered with no row, one row or two rows, or is refused by the database
ShapeSubQueries == {"items", "itemsNil", "detail", "detailNil", "strict"}
ShapeSetsOf(id) ==
    IF subq[id].shape = "slice" THEN {RsS(n) : n \in 0..2} \cup {RsDbErr}
    ELSE {RsM(n) : n \in 0..2} \cup {RsDbErr}

NextShape ==
    \/ NewMapper(StarCols, <<QueryOpt(FromT)>>)
    \/ \E op \in RowOps, q \in ShapeSubQueries :
          Call(Main, op, <<SubQueryOpt(q)>>, RsA(1), NoHandler, 0)
    \/ MapColumnsRLock(Main)
    \/ MapColumnsHit(Main)
    \/ MapColumnsBuild(Main)
    \/ NextRow(Main)
    \/ MapRowScan(Main)
    \/ SubQueryRLock(Main)
    \/ \E id \in ShapeSubQueries : \E rs \in ShapeSetsOf(id) :
          At(Main, "rowMapperHit") /\ CurrentSubQuery(Top(Main)) = id /\ RowMapperHit(Main, rs)
    \/ \E id \in ShapeSubQueries : \E rs \in ShapeSetsOf(id) :
          At(Main, "rowMapperMiss") /\ CurrentSubQuery(Top(Main)) = id /\ RowMapperBuild(Main, rs)
    \/ SubQueryReturn(Main)
    \/ MapRowPostProcess(Main)
    \/ Return(Main)

SpecShape == Init /\ [][NextShape]_vars

\* ---------------------------------------------------------------- SpecShared
\* two goroutines read through one mapper at the same time: the table t with
\* the default query, or the table u with a call-time Query
SharedCalls ==
    {<<<<>>, RsA(n)>> : n \in 1..2} \cup {<<<<QueryOpt(FromU)>>, RsB(n)>> : n \in 1..2}

NextShared ==
    \/ NewMapper(StarCols, <<QueryOpt(FromT)>>)
    \/ \E p \in Procs :
        \/ \E op \in RowOps, c \in SharedCalls : Call(p, op, c[1], c[2], NoHandler, 0)
        \/ MapColumnsRLock(p)
        \/ MapColumnsHit(p)
        \/ MapColumnsBuild(p)
        \/ NextRow(p)
        \/ MapRowScan(p)
        \/ MapRowPostProcess(p)
        \/ Return(p)

SpecShared == Init /\ [][NextShared]_vars

\* ---------------------------------------------------------------- SpecOrder
\* one goroutine reads a row of the table r through a mapper that has a
\* PostProcess for the columns a and b, the sub-query items and a row
\* post-processor; a call adds a sub-query, a row post-processor and
\* exclusions; any step of the assembly may fail
OrderMappings ==
    {[a |-> Mapping("", <<>>, FALSE, Nil, pa, ""), b |-> Mapping("", <<>>, omit, Nil, pb, "")] :
        pa \in {"ppKeep", "ppErr"}, pb \in {"ppReplace", "ppErr"}, omit \in BOOLEAN}
OrderCalls ==
    {sqo \o rpo \o xo :
        sqo \in {<<>>, <<SubQueryOpt("detail")>>, <<SubQueryOpt("orphan")>>},
        rpo \in {<<>>, <<RowPPOpt(RowPP("", "rpErr"))>>, <<RowPPOpt(SetsUndeclared)>>},
        xo \in {<<>>, <<ExcluderOpt(OnlyIdA)>>}}
OrderSetsOf(id) == IF subq[id].shape = "slice" THEN {RsS(1), RsDbErr} ELSE {RsM(1)}

NextOrder ==
    \/ \E m \in OrderMappings :
          NewMapper(StarCols, <<QueryOpt(FromT), MappingsOpt(m), SubQueryOpt("items"),
                                RowPPOpt(SetsInitials)>>)
    \/ \E options \in OrderCalls, rs \in {RsR(1), RsRy(1)} :
          Call(Main, "Rows", options, rs, NoHandler, 0)
    \/ MapColumnsRLock(Main)
    \/ MapColumnsHit(Main)
    \/ MapColumnsBuild(Main)
    \/ NextRow(Main)
    \/ MapRowScan(Main)
    \/ SubQueryRLock(Main)
    \/ \E id \in DOMAIN SubQueries : \E rs \in OrderSetsOf(id) :
          At(Main, "rowMapperHit") /\ CurrentSubQuery(Top(Main)) = id /\ RowMapperHit(Main, rs)
    \/ \E id \in DOMAIN SubQueries : \E rs \in OrderSetsOf(id) :
          At(Main, "rowMapperMiss") /\ CurrentSubQuery(Top(Main)) = id /\ RowMapperBuild(Main, rs)
    \/ SubQueryReturn(Main)
    \/ MapRowPostProcess(Main)
    \/ Return(Main)

SpecOrder == Init /\ [][NextOrder]_vars

\* ---------------------------------------------------------------- SpecPath
\* one goroutine reads a row of the table t, whose column a is mapped to the
\* path in, with an array or a merge sub-query over the table extra (a, c)
\* whose column a is mapped to the path in too, under an excluder that
\* names one property at one path
PathPairs ==
    {<<"a", <<"items", "in">>>>, <<"a", <<"in">>>>, <<"c", <<"items">>>>, <<"c", <<>>>>,
     <<"a", <<>>>>, <<"a", <<"items">>>>}
PathExcluders ==
    {Excluder("cond", {}, {}, {pr}) : pr \in PathPairs}
        \cup {Excluder("allowed", {"id", "c", "items"}, {"a"}, {pr}) : pr \in PathPairs}
PathCalls ==
    {<<SubQueryOpt(q)>> \o xo :
        q \in {"nested", "mergeNested"},
        xo \in {<<>>} \cup {<<ExcluderOpt(x)>> : x \in PathExcluders}}

NextPath ==
    \/ NewMapper(StarCols, <<QueryOpt(FromT), MappingsOpt(InMappings)>>)
    \/ \E op \in RowOps, options \in PathCalls :
          Call(Main, op, options, RsA(1), NoHandler, 0)
    \/ MapColumnsRLock(Main)
    \/ MapColumnsHit(Main)
    \/ MapColumnsBuild(Main)
    \/ NextRow(Main)
    \/ MapRowScan(Main)
    \/ SubQueryRLock(Main)
    \/ \E rs \in {RsM(1), RsM(2)} : RowMapperHit(Main, rs)
    \/ \E rs \in {RsM(1), RsM(2)} : RowMapperBuild(Main, rs)
    \/ SubQueryReturn(Main)
    \/ MapRowPostProcess(Main)
    \/ Return(Main)

SpecPath == Init /\ [][NextPath]_vars

\* ---------------------------------------------------------------- SpecScan
\* one goroutine reads the table kinds, which has a column of every kind of
\* database type and native scan type, with a mapper that gives no column or
\* one of the columns a custom Scanner
ColsK ==
    <<ColumnType("j1", "JSON", "string"), ColumnType("j2", "JSONB", "float64"),
      ColumnType("j3", "json", "int64"),
      ColumnType("d1", "DECIMAL", "string"), ColumnType("d2", "FLOAT", "int64"),
      ColumnType("d3", "DOUBLE", "NullString"), ColumnType("d4", "NUMERIC", "interface"),
      ColumnType("f1", "FLOAT8", "string"), ColumnType("f2", "FLOAT4", "int64"),
      ColumnType("f3", "UFLOAT", "int64"),
      ColumnType("s1", "VARCHAR", "string"), ColumnType("s2", "TEXT", "NullString"),
      ColumnType("n1", "REAL", "float32"), ColumnType("n2", "REAL", "float64"),
      ColumnType("n3", "", "NullFloat64"),
      ColumnType("r1", "INT", "int64"), ColumnType("r2", "BLOB", "RawBytes"),
      ColumnType("r3", "BOOL", "bool")>>
RsK(n) == ResultSet(ColsK, [i \in 1..n |-> [k \in 1..Len(ColsK) |-> BytesV("1")]],
                    FALSE, FALSE)
FromKinds == <<"FROM", " ", "kinds">>
KindNames == {ColsK[k].name : k \in 1..Len(ColsK)}
ScanCtorOptions ==
    {<<QueryOpt(FromKinds)>>}
        \cup {<<QueryOpt(FromKinds),
                MappingsOpt([n \in {name} |-> Mapping("", <<>>, FALSE, Nil, "", "BoolColumn")])>> :
                name \in KindNames}

NextScan ==
    \/ \E options \in ScanCtorOptions : NewMapper(StarCols, options)
    \/ \E op \in RowOps, n \in 1..2 : Call(Main, op, <<>>, RsK(n), NoHandler, 0)
    \/ MapColumnsRLock(Main)
    \/ MapColumnsHit(Main)
    \/ MapColumnsBuild(Main)
    \/ NextRow(Main)
    \/ MapRowScan(Main)
    \/ MapRowPostProcess(Main)
    \/ Return(Main)

SpecScan == Init /\ [][NextScan]_vars

\* ---------------------------------------------------------------- SpecOne
\* two goroutines call the single-row operations of one mapper over the table
\* t with no row, one row or several rows, the writing ones with a writer
\* that accepts everything or fails
OneOps == {"FirstRow", "ExactlyOneRow", "WriteFirstRow", "WriteExactlyOneRow"}
OneSets == {RsA(n) : n \in 0..(MaxRows + 1)}

NextOne ==
    \/ NewMapper(StarCols, <<QueryOpt(FromT)>>)
    \/ \E p \in Procs, op \in OneOps, rs \in OneSets :
          \E wfail \in (IF op \in {"WriteFirstRow", "WriteExactlyOneRow"} THEN {0, 1} ELSE {0}) :
              Call(p, op, <<>>, rs, NoHandler, wfail)
    \/ \E p \in Procs :
          \/ MapColumnsRLock(p)
          \/ MapColumnsHit(p)
          \/ MapColumnsBuild(p)
          \/ MapRowScan(p)
          \/ MapRowPostProcess(p)
          \/ Return(p)

SpecOne == Init /\ [][NextOne]_vars

\* ---------------------------------------------------------------- SpecPlan
\* one goroutine reads a row of the table t, whose column a holds "1" or
\* null, from a mapper made with or without a custom Scanner for a, each call
\* with no option or with a Mappings option for a of any name, path, null
\* handling, PostProcess and Scanner
PlanMappings ==
    {[a |-> Mapping(name, path, nulls[1], nulls[2], pp, sc)] :
        name \in {"", "alpha"}, path \in {<<>>, <<"sub">>},
        nulls \in {<<FALSE, Nil>>, <<TRUE, Nil>>, <<FALSE, StrV("dflt")>>},
        pp \in {"", "ppReplace"}, sc \in {"", "BoolColumn"}}
PlanCalls == {<<>>} \cup {<<MappingsOpt(m)>> : m \in PlanMappings}
PlanSets ==
    {ResultSet(ColsA, <<<<IntV("1"), a>>>>, FALSE, FALSE) : a \in {BytesV("1"), Nil}}

NextPlan ==
    \/ \E options \in {<<QueryOpt(FromT)>>, <<QueryOpt(FromT), MappingsOpt(ScanMappings)>>} :
          NewMapper(StarCols, options)
    \/ \E options \in PlanCalls, rs \in PlanSets :
          Call(Main, "FirstRow", options, rs, NoHandler, 0)
    \/ MapColumnsRLock(Main)
    \/ MapColumnsHit(Main)
    \/ MapColumnsBuild(Main)
    \/ MapRowScan(Main)
    \/ MapRowPostProcess(Main)
    \/ Return(Main)

SpecPlan == Init /\ [][NextPlan]_vars

\* ---------------------------------------------------------------- SpecIter
\* one goroutine calls Iterator of a struct mapper over the table t and then
\* ranges over the function it got, invokes it with a yield function of its
\* own, or never invokes it
IterCalls ==
    {<<options, rs>> :
        options \in {<<>>, <<LimiterOpt(1)>>, <<StructPostProcessorOpt("sppErr")>>,
                     <<UnknownOpt>>},
        rs \in {RsA(n) : n \in 0..(MaxRows + 1)} \cup {RsB(1), RsNull, RsCtErr, RsDbErr}}
YieldForms == {"range", "call"}

NextIter ==
    \/ \E options \in {<<QueryOpt(FromT)>>, <<QueryOpt(FromT), ErrorTranslatorOpt>>} :
          NewStructMapper(TRow, StarCols, options)
    \/ \E c \in IterCalls : StructIterator(Main, c[1], c[2])
    \/ \E form \in YieldForms, stopAt \in 0..MaxRows : IteratorRange(Main, form, stopAt)
    \/ IteratorDrop(Main)
    \/ Return(Main)

SpecIter == Init /\ [][NextIter]_vars

\* ---------------------------------------------------------------- properties
\* every frame on a goroutine's stack
Frames == UNION {{stack[p][i] : i \in 1..Len(stack[p])} : p \in Procs}

Min(a, b) == IF a < b THEN a ELSE b

\* the Limiter options a call was given
LimiterOptions(f) == {i \in DOMAIN f.opts : f.opts[i].kind = "Limiter"}

\* the frame read its rows to the end of the operation with no row failing to
\* assemble, no panic and no failing write
ReadCleanly(f) ==
    f.pc = "done" /\ f.cr.valid /\ f.rowErr = NoError /\ f.wfail = 0

\* the first argument column of sub-query sq that row has no property for
\* (0: none is absent)
FirstMissing(sq, row) ==
    LET missing == {k \in DOMAIN sq.argColumns : sq.argColumns[k] \notin DOMAIN row}
    IN IF missing = {} THEN 0 ELSE CHOOSE k \in missing : \A j \in missing : k <= j

\* C1: the column plan of a mapper is computed at most once, however many
\* goroutines call its read operations at the same time
C1_PlanComputedAtMostOnce ==
    \A m \in DOMAIN planBuilds : planBuilds[m] <= 1

\* C2: the nested mapper of a SubQuery is built exactly once: the mapper field,
\* once set, is never replaced, and every Execute uses that one mapper
C2_NestedMapperBuiltOnce ==
    /\ \A q \in DOMAIN subq : Len(sqMappers[q]) <= 1
    /\ \A f \in Frames :
          f.pc = "execute" => f.rm = sqMappers[CurrentSubQuery(f)][1]

\* C3: a read operation in which a row failed to assemble returns that row's
\* error, never a nil error
C3_RowErrorReturned ==
    \A f \in Frames :
        f.pc = "done" /\ f.rowErr # NoError => f.err = f.rowErr

\* a Query option whose text starts, after white space, with a comma
ForgedQuery(options) ==
    \E i \in DOMAIN options :
        options[i].kind = "Query" /\ HasPrefixComma(TrimLeft(options[i].text))

\* C4: a Query option that starts with a comma is rejected with an error, by
\* the constructors (no mapper or struct mapper results) and by every read
\* operation of Mapper and StructMapper (no query reaches the database)
C4_ForgedQueryRejected ==
    /\ ctor.done /\ ForgedQuery(ctor.options) =>
          ctor.err # NoError /\ mappers = <<>> /\ smappers = <<>>
    /\ \A f \in Frames :
          ForgedQuery(f.opts) => f.pc = "done" /\ f.err # NoError /\ ~f.queried

\* an ErrorTranslator among options that are all of kinds the callee documents
HasTranslator(options, kinds) ==
    /\ \E i \in DOMAIN options : options[i].kind = "ErrorTranslator"
    /\ \A i \in DOMAIN options : options[i].kind \in kinds \cup {"ErrorTranslator"}

\* the top-level frames of the operations that take an ErrorTranslator
TranslatingFrames ==
    {f \in {stack[p][1] : p \in {q \in Procs : stack[q] # <<>>}} :
        f.op \in {"Rows", "FirstRow", "ExactlyOneRow"} \cup StructOps}

\* the caller's translator applies to the call: given at construction, or
\* with the call
TranslatorGiven(f) ==
    \/ ctor.err = NoError /\ HasTranslator(ctor.options, {"Query"})
    \/ HasTranslator(f.opts, {"Query", "StructPostProcessor"})

\* C5: an ErrorTranslator option is accepted by Mapper and StructMapper, at
\* construction and with a call; every non-nil error of the call is handed to
\* it and what it answers is returned; without one the error is returned
\* unchanged; a nil error is never handed to a translator
C5_ErrorTranslatorHonoured ==
    /\ ctor.done /\ HasTranslator(ctor.options, {"Query"}) =>
          ctor.err # UnknownOption(ErrorTranslatorOpt)
    /\ \A f \in TranslatingFrames :
          /\ HasTranslator(f.opts, {"Query", "StructPostProcessor"}) =>
                UnknownOption(ErrorTranslatorOpt)
                    \notin {f.err} \cup {f.translated[i] : i \in DOMAIN f.translated}
          /\ f.pc = "done" /\ f.err # NoError =>
                IF TranslatorGiven(f)
                THEN /\ Len(f.translated) = 1
                     /\ f.err = Translate(CustomErrorTranslator, f.translated[1])
                ELSE f.translated \in {<<>>, <<f.err>>}
          /\ \A i \in DOMAIN f.translated : f.translated[i] # NoError

\* C6: the rows of a call are scanned with a plan whose column count and
\* column names are those of the call's own result set
C6_PlanMatchesResultSet ==
    \A f \in Frames :
        f.scanned # <<>> =>
            /\ f.cr.count = Len(f.rs.cols)
            /\ f.cr.names = [i \in 1..Len(f.rs.cols) |-> f.rs.cols[i].name]

\* C7: when rows.ColumnTypes() fails while the plan is being built, the
\* operation does not crash, it returns that error unchanged, and no plan is
\* left in the mapper
C7_ColumnTypesErrorReturned ==
    \A f \in Frames :
        f.ctFailed =>
            /\ f.pc = "done"
            /\ f.err = ErrColumnTypes
            /\ ~mappers[f.m].columnsInfo.valid

\* the number of rows Rows is to return: all N without a Limiter option, the
\* first K of them under a limiter that caps at K
ExpectedRows(f) ==
    IF LimiterOptions(f) = {} THEN Len(f.rs.rows)
    ELSE Min(Len(f.rs.rows), f.opts[CHOOSE i \in LimiterOptions(f) : TRUE].n)

\* C8: Rows over a result set of N rows, no row failing, returns a nil error
\* and exactly the first ExpectedRows rows, in result-set order (row i of the
\* result carries the first column of row i of the result set)
C8_RowsCountAndOrder ==
    \A f \in Frames :
        f.op = "Rows" /\ ReadCleanly(f) =>
            /\ f.err = NoError
            /\ f.result.t = "list"
            /\ Len(f.result.v) = ExpectedRows(f)
            /\ f.kept = [i \in 1..ExpectedRows(f) |-> i]
            /\ \A i \in 1..Len(f.result.v) :
                  f.result.v[i].v[f.cr.names[1]] = f.rs.rows[i][1]

\* a capped Rows call: 2 rows in the result set, a limiter capping at 1, one
\* row returned
C8_Witness ==
    \E f \in Frames :
        /\ f.op = "Rows" /\ ReadCleanly(f)
        /\ LimiterOptions(f) # {} /\ ExpectedRows(f) = 1 /\ Len(f.rs.rows) = 2
        /\ Len(f.result.v) = 1

\* C9 as written: the limiter is passed the count of rows produced so far
C9_LimiterGivenRowsProduced ==
    \A f \in Frames :
        f.op \in {"Rows", "WriteRows"} =>
            \A i \in DOMAIN f.consulted : f.consulted[i][1] = f.consulted[i][2]

\* C9: in Rows and WriteRows the limiter is consulted once for each fetched row
\* (WriteRows fetches one more row without consulting it once a row or a write
\* has failed), before that row is scanned, and is passed the count of rows
\* produced so far plus one; when it answers true that row is neither scanned
\* nor produced and reading stops; without a Limiter option nothing stops the
\* read before the last row
C9_LimiterConsultedPerRow ==
    \A f \in Frames :
        f.op \in {"Rows", "WriteRows"} =>
            /\ \A i \in DOMAIN f.consulted : f.consulted[i] = <<i, i - 1>>
            /\ \/ Len(f.consulted) = f.pos
               \/ /\ f.op = "WriteRows" /\ f.pc = "done"
                  /\ f.rowErr # NoError \/ f.wfail # 0
                  /\ Len(f.consulted) = f.pos - 1
            /\ f.scanned = [j \in 1..Len(f.scanned) |-> j]
            /\ Len(f.scanned) <= Len(f.consulted)
            /\ f.pc = "mapRow" => Len(f.scanned) = Len(f.consulted) - 1
            /\ \A i \in DOMAIN f.consulted :
                  LimitReached(f.o.limiter, f.consulted[i][1]) =>
                      /\ i = Len(f.consulted)
                      /\ f.pc = "done"
                      /\ f.pos = i
                      /\ Len(f.scanned) = i - 1
                      /\ Len(f.kept) = i - 1
            /\ LimiterOptions(f) = {} /\ ReadCleanly(f) =>
                  /\ f.pos = Len(f.rs.rows)
                  /\ Len(f.kept) = Len(f.rs.rows)

\* a WriteRows call stopped by its limiter at the second row: the limiter was
\* consulted twice, one row was scanned and written
C9_Witness ==
    \E f \in Frames :
        /\ f.op = "WriteRows" /\ f.pc = "done"
        /\ Len(f.consulted) = 2
        /\ LimitReached(f.o.limiter, f.consulted[2][1])
        /\ f.scanned = <<1>> /\ f.kept = <<1>>

\* C10: over a result set of zero rows ExactlyOneRow and WriteExactlyOneRow
\* return sql.ErrNoRows, FirstRow and WriteFirstRow a nil error; no row is
\* returned and nothing is written
C10_ZeroRows ==
    \A f \in Frames :
        /\ f.op \in {"FirstRow", "ExactlyOneRow", "WriteFirstRow", "WriteExactlyOneRow"}
        /\ f.pc = "done" /\ f.cursor = "closed" /\ f.rs.rows = <<>>
        => /\ f.err = IF f.op \in {"ExactlyOneRow", "WriteExactlyOneRow"}
                      THEN ErrNoRows ELSE NoError
           /\ f.result = Nil
           /\ f.out = <<>> /\ f.writes = 0

\* WriteExactlyOneRow returned sql.ErrNoRows over an empty result set
C10_Witness ==
    \E f \in Frames :
        /\ f.op = "WriteExactlyOneRow" /\ f.pc = "done"
        /\ f.cursor = "closed" /\ f.rs.rows = <<>>
        /\ f.err = ErrNoRows /\ f.out = <<>>

\* C11: a sub-query of any shape whose parent row lacks a declared argument
\* column fails in Execute with the error that names the first such column;
\* Execute does not go on to the nested read (no query reaches the database),
\* it is the last Execute of the call, and the parent row is as Execute
\* received it
C11_MissingArgument ==
    \A f \in Frames : \A i \in DOMAIN f.executes :
        LET e == f.executes[i]
            sq == subq[e.id]
            k == FirstMissing(sq, e.row)
        IN k # 0 /\ f.pc \notin {"rowMapperHit", "rowMapperMiss"} =>
              /\ i = Len(f.executes)
              /\ ~e.read /\ ~e.ret
              /\ e.after = e.row /\ f.row = e.row
              /\ f.rowErr = "sub-query arg property '" \o sq.argColumns[k]
                                \o "' does not exist"
              /\ f.pc = "done" => f.result = Nil

\* the merge sub-query whose first argument column is absent and whose second
\* is present failed naming the first
C11_Witness ==
    \E f \in Frames :
        /\ f.pc = "done" /\ f.executes # <<>>
        /\ f.executes[1].id = "orphanMerge"
        /\ f.executes[1].row # EmptyRow
        /\ f.rowErr = "sub-query arg property 'nope' does not exist"
        /\ f.err = f.rowErr

\* the rows a frame has returned so far
RowsOf(f) ==
    IF f.result.t = "list" THEN {f.result.v[i].v : i \in DOMAIN f.result.v}
    ELSE IF f.result.t = "map" THEN {f.result.v} ELSE {}

\* the exclusions of frame f exclude the top-level property
Excluded(f, property) == property # "" /\ Exclude(f.o.exclusions, property, <<>>)

\* C12: Execute is never called for a sub-query, and PostProcess never for a
\* row post-processor, whose non-empty provided property the exclusions
\* exclude: there is no nested read and the rows returned lack the property
\* (the property initials, when every processor that sets it is excluded);
\* for every row produced, each sub-query and each row post-processor that
\* is not excluded, and so each one that declares no property, was executed
C12_ExcludedNotExecuted ==
    \A f \in Frames :
        /\ \A i \in DOMAIN f.executes :
              ~Excluded(f, subq[f.executes[i].id].propertyName)
        /\ \A i \in DOMAIN f.rpCalled :
              ~Excluded(f, f.o.postProcesses[f.rpCalled[i][2]].provides)
        /\ \A j \in DOMAIN f.o.subQueries :
              LET sq == subq[f.o.subQueries[j]]
              IN IF Excluded(f, sq.propertyName)
                 THEN \A row \in RowsOf(f) : sq.propertyName \notin DOMAIN row
                 ELSE \A k \in DOMAIN f.kept :
                         \E i \in DOMAIN f.executes :
                             /\ f.executes[i].pos = f.kept[k]
                             /\ f.executes[i].id = f.o.subQueries[j]
                             /\ f.executes[i].read /\ f.executes[i].ret
        /\ \A j \in DOMAIN f.o.postProcesses :
              Excluded(f, f.o.postProcesses[j].provides)
                  \/ \A k \in DOMAIN f.kept :
                         \E i \in DOMAIN f.rpCalled : f.rpCalled[i] = <<f.kept[k], j>>
        /\ (\A j \in DOMAIN f.o.postProcesses :
                Excluded(f, f.o.postProcesses[j].provides))
              => \A row \in RowsOf(f) : "initials" \notin DOMAIN row

\* a row was produced under exclusions that exclude the registered sub-query
\* items and the registered processor of initials, and that name no property
\* of the merge sub-query given with the call: only the merge was executed
C12_Witness ==
    \E f \in Frames :
        /\ f.pc = "done" /\ f.err = NoError /\ f.kept # <<>>
        /\ f.o.subQueries = <<"items", "merge">>
        /\ f.o.postProcesses = <<SetsInitials>>
        /\ Excluded(f, "items") /\ Excluded(f, "initials")
        /\ Len(f.executes) = 1 /\ f.executes[1].id = "merge" /\ f.executes[1].read
        /\ f.rpCalled = <<>>
        /\ \A row \in RowsOf(f) : DOMAIN row \cap {"items", "initials"} = {}

\* the Execute calls of merge sub-queries whose nested read has returned
\* without error
MergesDone ==
    UNION {{f.executes[i] : i \in {j \in DOMAIN f.executes :
                                      /\ subq[f.executes[j].id].shape = "merge"
                                      /\ f.executes[j].ret
                                      /\ f.executes[j].err = NoError}} : f \in Frames}

\* C13: a merge sub-query leaves the parent row with the keys it had and the
\* keys the nested read returned.  With noOverwrite every key of the parent
\* row keeps its value and only the returned keys that were absent are added
\* with the returned value; without it every returned key has the returned
\* value and every other key keeps its value.  A nested read of zero rows
\* (a nil object, a nil error) leaves the parent row as it was
C13_MergeNoOverwrite ==
    /\ \A e \in MergesDone :
          LET obj == IF e.result.t = "nil" THEN EmptyRow ELSE e.result.v
          IN /\ DOMAIN e.after = (DOMAIN e.row) \cup (DOMAIN obj)
             /\ IF subq[e.id].noOverwrite
                THEN /\ \A k \in DOMAIN e.row : e.after[k] = e.row[k]
                     /\ \A k \in (DOMAIN obj) \ (DOMAIN e.row) : e.after[k] = obj[k]
                ELSE /\ \A k \in DOMAIN obj : e.after[k] = obj[k]
                     /\ \A k \in (DOMAIN e.row) \ (DOMAIN obj) : e.after[k] = e.row[k]
             /\ e.result.t = "nil" => e.after = e.row
    /\ \A p \in Procs :
          /\ Len(stack[p]) = 2
          /\ subq[CurrentSubQuery(stack[p][1])].shape = "merge"
          /\ stack[p][2].pc = "done" /\ stack[p][2].cursor = "closed"
          /\ stack[p][2].rs.rows = <<>>
          => stack[p][2].err = NoError /\ stack[p][2].result = Nil
    /\ \A f \in Frames :
          /\ f.pc = "subQueries" /\ f.executes # <<>>
          /\ f.executes[Len(f.executes)].pos = f.pos
          /\ f.sqi > 1 /\ f.executes[Len(f.executes)].id = f.o.subQueries[f.sqi - 1]
          => f.row = f.executes[Len(f.executes)].after

\* a noOverwrite merge whose nested read returned the key a, which the parent
\* row has with another value, and the key c, which it lacks
C13_Witness ==
    \E e \in MergesDone :
        /\ subq[e.id].noOverwrite /\ e.result.t = "map"
        /\ "a" \in DOMAIN e.row /\ "a" \in DOMAIN e.result.v
        /\ e.row["a"] # e.result.v["a"] /\ e.after["a"] = e.row["a"]
        /\ "c" \notin DOMAIN e.row /\ e.after["c"] = e.result.v["c"]

\* the map reached from obj along path (ok: every element of path is a key
\* of the map before it and holds a map)
RECURSIVE Container(_, _)
Container(obj, path) ==
    IF path = <<>> THEN [ok |-> TRUE, v |-> obj]
    ELSE IF Head(path) \in DOMAIN obj /\ obj[Head(path)].t = "map"
    THEN Container(obj[Head(path)].v, Tail(path))
    ELSE [ok |-> FALSE, v |-> EmptyRow]

\* obj has the property name in the map at path
Holds(obj, path, name) ==
    Container(obj, path).ok /\ name \in DOMAIN Container(obj, path).v

\* the frames that have just assembled the columns of the row at the cursor
Assembled == {f \in Frames : f.pc = "subQueries" /\ f.sqi = 1 /\ f.executes = <<>>}

\* the mapped columns of the frame's result set, the property each becomes
\* and the driver value of each in the row at the cursor
MappedColumns(f) == {i \in 1..f.cr.count : f.cr.names[i] \in DOMAIN f.o.mappings}
MappingOf(f, i) == f.o.mappings[f.cr.names[i]]
PropertyOf(f, i) ==
    IF MappingOf(f, i).PropertyName # "" THEN MappingOf(f, i).PropertyName
    ELSE f.cr.names[i]
RawOf(f, i) == f.rs.rows[f.pos][i]

\* the mapped columns that are placed in the row: not omitted as null, not
\* excluded
Placed(f) ==
    {i \in MappedColumns(f) :
        /\ ~(RawOf(f, i).t = "nil" /\ MappingOf(f, i).OmitNull)
        /\ ~Exclude(f.o.exclusions, PropertyOf(f, i),
                    mappers[f.m].subPath \o MappingOf(f, i).Path)}

\* path q is a prefix of path p
IsPrefix(q, p) == Len(q) <= Len(p) /\ SubSeq(p, 1, Len(q)) = q

\* C14: for any two placed columns whose mapping paths share a prefix, the row
\* has one map at that prefix and, from that map on, the rest of each
\* column's path leads to that column's property: the later column went
\* into the map made for the earlier one
C14_SharedPathContainer ==
    \A f \in Assembled : \A i, j \in Placed(f) :
        \A n \in 1..Min(Len(MappingOf(f, i).Path), Len(MappingOf(f, j).Path)) :
            LET pi == MappingOf(f, i).Path
                pj == MappingOf(f, j).Path
                k == Container(f.row, SubSeq(pi, 1, n))
            IN i # j /\ SubSeq(pi, 1, n) = SubSeq(pj, 1, n) =>
                  /\ k.ok
                  /\ Holds(k.v, SubSeq(pi, n + 1, Len(pi)), PropertyOf(f, i))
                  /\ Holds(k.v, SubSeq(pj, n + 1, Len(pj)), PropertyOf(f, j))

\* column a mapped to the path sub and column b to the path sub, deep: the row
\* is {id, sub: {a, deep: {b}}}
C14_Witness ==
    \E f \in Assembled :
        /\ MappingOf(f, 2).Path = <<"sub">> /\ MappingOf(f, 3).Path = <<"sub", "deep">>
        /\ Placed(f) = {2, 3}
        /\ DOMAIN f.row = {"id", "sub"}
        /\ DOMAIN f.row["sub"].v = {"a", "deep"}
        /\ f.row["sub"].v["a"] = StrV("x")
        /\ f.row["sub"].v["deep"].v = [k \in {"b"} |-> StrV("y")]

\* C15: a mapped column whose value is null.  With OmitNull the row has
\* neither the property nor any map of the column's path that no placed
\* column shares, whatever NullDefault and PostProcess are; otherwise, unless
\* the exclusions exclude it, the property is present: with the value
\* PostProcess replaced it by if it did, else with NullDefault if there is
\* one, else with null
C15_NullHandling ==
    \A f \in Assembled : \A i \in MappedColumns(f) :
        LET mp == MappingOf(f, i)
        IN RawOf(f, i).t = "nil" =>
            IF mp.OmitNull
            THEN /\ ~Holds(f.row, mp.Path, PropertyOf(f, i))
                 /\ \A n \in 1..Len(mp.Path) :
                       Container(f.row, SubSeq(mp.Path, 1, n)).ok =>
                           \E j \in Placed(f) :
                               IsPrefix(SubSeq(mp.Path, 1, n), MappingOf(f, j).Path)
            ELSE i \in Placed(f) =>
                 /\ Holds(f.row, mp.Path, PropertyOf(f, i))
                 /\ Container(f.row, mp.Path).v[PropertyOf(f, i)] =
                        IF PostProcessCall(mp.PostProcess, f.row, Nil).replace
                        THEN PostProcessCall(mp.PostProcess, f.row, Nil).value
                        ELSE IF mp.NullDefault # Nil THEN mp.NullDefault ELSE Nil

\* column b is null and mapped to the path other with OmitNull, a NullDefault
\* and a PostProcess that replaces: the row has neither b nor other
C15_Witness ==
    \E f \in Assembled :
        /\ RawOf(f, 3) = Nil
        /\ MappingOf(f, 3).OmitNull /\ MappingOf(f, 3).NullDefault = StrV("dflt")
        /\ MappingOf(f, 3).PostProcess = "ppReplace"
        /\ MappingOf(f, 3).Path = <<"other">>
        /\ f.o.exclusions = <<>>
        /\ DOMAIN f.row = {"id", "a"}

\* the kinds of option the read operations of Mapper take, and NewMapper
CallKinds ==
    {"nil", "Query", "AddClause", "Mappings", "PropertyExclusions", "PropertyExcluder",
     "func", "RowPostProcessor", "SubQuery", "Limiter"}
CtorKinds == {"nil", "RowPostProcessor", "SubQuery", "Query", "UseDecimals", "Mappings"}

\* the top-level frames: the read calls of the mapper NewMapper returned
TopFrames == {f \in Frames : f.m = 1 /\ f.op \in Ops}

\* a query is established before option i of the call: the mapper has a
\* default query or a Query option comes before i
Established(f, i) ==
    mappers[1].defaultQuery.set \/ \E j \in 1..(i - 1) : f.opts[j].kind = "Query"

\* the first option of the call that is of no known kind or is an AddClause
\* with no query established (0: there is none)
FirstOffender(f) ==
    LET bad == {i \in DOMAIN f.opts :
                   \/ f.opts[i].kind \notin CallKinds
                   \/ f.opts[i].kind = "AddClause" /\ ~Established(f, i)}
    IN IF bad = {} THEN 0 ELSE CHOOSE i \in bad : \A j \in bad : i <= j

\* the last Query option of the call (0: there is none)
LastQuery(f) ==
    LET qs == {i \in DOMAIN f.opts : f.opts[i].kind = "Query"}
    IN IF qs = {} THEN 0 ELSE CHOOSE i \in qs : \A j \in qs : j <= i

\* " " + clause for every AddClause option from option i on
RECURSIVE ClausesFrom(_, _)
ClausesFrom(options, i) ==
    IF i > Len(options) THEN <<>>
    ELSE (IF options[i].kind = "AddClause" THEN <<" ">> \o options[i].text ELSE <<>>)
            \o ClausesFrom(options, i + 1)

\* C16: the options of a call are resolved in order.  An AddClause with no
\* query established (and no option of an unknown type before it) fails the
\* call with "add clause must have a query set"; a call that establishes no
\* query fails with "no default query"; otherwise the query is the default
\* query or, after a Query option, "SELECT <columns> <text>" of the last
\* one, followed by " <clause>" for each AddClause after it, in order.  A
\* nested mapper starts from the query of its sub-query.  Only a resolved
\* query reaches the database
C16_QueryResolution ==
    /\ \A f \in TopFrames :
          LET k == FirstOffender(f)
              last == LastQuery(f)
          IN /\ k # 0 /\ f.opts[k].kind = "AddClause" => f.o.err = ErrAddClause
             /\ k = 0 /\ ~Established(f, Len(f.opts) + 1) => f.o.err = ErrNoDefaultQuery
             /\ k = 0 /\ Established(f, Len(f.opts) + 1) =>
                   /\ f.o.err = NoError
                   /\ f.o.query =
                         (IF last = 0 THEN mappers[1].defaultQuery.text
                          ELSE <<"SELECT", " ">> \o mappers[1].cols \o <<" ">>
                                  \o f.opts[last].text)
                         \o ClausesFrom(f.opts, last + 1)
             /\ f.queried => f.o.err = NoError
    /\ \A f \in Frames :
          f.m > 1 =>
              /\ f.o.err = NoError
              /\ f.o.query = subq[mappers[f.m].subQuery].query

\* a call with an AddClause, a Query and another AddClause: the first clause
\* is discarded and the query sent is that of the Query option and the
\* second clause
C16_Witness ==
    \E f \in TopFrames :
        /\ f.opts = <<AddClauseOpt(Where1), QueryOpt(FromU), AddClauseOpt(OrderBy)>>
        /\ f.queried
        /\ f.o.query = <<"SELECT", " ", "*", " ", "FROM", " ", "u", " ",
                         "ORDER", " ", "BY", " ", "id">>

\* the mapper NewMapper returned, as it was constructed
Constructed == newMapper(mappers[1].cols, ctor.options).m

\* C17: read calls with call-time options leave the mapper's own mappings,
\* default query, registered sub-queries and registered row post-processors
\* as they were constructed, and a call without options works with the
\* construction-time configuration: the options it resolves and the scanners
\* it decodes the columns of its result set with are those the constructed
\* mapper gives
C17_CallOptionsLeaveMapper ==
    ctor.kind = "Mapper" /\ mappers # <<>> =>
        /\ mappers[1].mappings = Constructed.mappings
        /\ mappers[1].defaultQuery = Constructed.defaultQuery
        /\ mappers[1].rowSubQueries = Constructed.rowSubQueries
        /\ mappers[1].rowPostProcessors = Constructed.rowPostProcessors
        /\ \A f \in TopFrames :
              f.opts = <<>> =>
                  /\ f.o = rowMapOptions(Constructed, <<>>, <<>>)
                  /\ f.cr.valid =>
                        f.cr = reader(newColumnsInfo(f.rs, Constructed.mappings).info)

\* the options without the nil ones
NonNil(options) == SelectSeq(options, LAMBDA o : o.kind # "nil")

\* the first option of NewMapper that is of no known kind or is a Query after
\* another Query (0: there is none)
FirstCtorOffender(options) ==
    LET bad == {i \in DOMAIN options :
                   \/ options[i].kind \notin CtorKinds
                   \/ /\ options[i].kind = "Query"
                      /\ \E j \in 1..(i - 1) : options[j].kind = "Query"}
    IN IF bad = {} THEN 0 ELSE CHOOSE i \in bad : \A j \in bad : i <= j

\* C18: a read call whose first offending option is of an unrecognised type
\* fails with "unknown option type: <type>" and makes no database call;
\* NewMapper whose first offending option is of an unrecognised type or a
\* second Query fails (the latter with "cannot use multiple default
\* queries") and returns no mapper, and succeeds when no option offends; nil
\* options change nothing in what a call or NewMapper resolves
C18_ConfigurationErrors ==
    /\ \A f \in TopFrames :
          LET k == FirstOffender(f)
          IN /\ k # 0 /\ f.opts[k].kind \notin CallKinds =>
                   /\ f.o.err = "unknown option type: " \o TypeName(f.opts[k])
                   /\ ~f.queried
                   /\ f.pc = "done"
                   /\ f.err = f.o.err
             /\ f.o = rowMapOptions(mappers[1], <<>>, NonNil(f.opts))
    /\ ctor.done /\ ctor.kind = "Mapper" =>
          LET k == FirstCtorOffender(ctor.options)
          IN /\ k # 0 =>
                   /\ mappers = <<>>
                   /\ ctor.err = IF ctor.options[k].kind = "Query"
                                 THEN "cannot use multiple default queries"
                                 ELSE "unknown option type: " \o TypeName(ctor.options[k])
             /\ k = 0 => mappers # <<>> /\ ctor.err = NoError
             /\ mappers # <<>> =>
                   newMapper(mappers[1].cols, NonNil(ctor.options)).m = Constructed

\* a call given a nil option and then an int has returned the error naming
\* int without a database call
C18_Witness ==
    \E f \in TopFrames :
        /\ f.opts = <<NilOpt, UnknownIntOpt>>
        /\ f.pc = "done"
        /\ f.err = "unknown option type: int"
        /\ ~f.queried

\* the frames of the read operations of Mapper, nested ones included
MapperFrames == {f \in Frames : f.op \in Ops}

\* C19: a read operation of Mapper whose query the database answered with a
\* cursor holds that cursor, and once the operation has returned (or has
\* panicked) the cursor is closed, however the operation ended
C19_CursorClosed ==
    \A f \in MapperFrames :
        /\ f.queried /\ ~f.rs.dbErr => f.cursor # "none"
        /\ f.pc \in {"done", "panic"} => f.cursor # "open"

\* Iterate has returned because its handler returned cont = false on the
\* first of two rows: the cursor is closed with the second row fetched and
\* never scanned
C19_Witness ==
    \E f \in MapperFrames :
        /\ f.op = "Iterate" /\ f.handler.stopAt = 1
        /\ f.pc = "done" /\ f.err = NoError
        /\ Len(f.rs.rows) = 2 /\ f.scanned = <<1>> /\ f.kept = <<1>>
        /\ f.cursor = "closed"

\* the configuration of a mapper: every field but the cached column plan
Config(m) == [m EXCEPT !.columnsInfo = NilColumnsInfo]

\* the options of Extend of one kind, in the order given
OfKind(options, kind) == SelectSeq(options, LAMBDA o : o.kind = kind)

\* the mapping of column c after Extend: that of the last Mappings option
\* that has c, else the supplied one, else the original one
ExtendedMapping(c) ==
    LET ms == OfKind(ext.options, "Mappings")
        has == {i \in DOMAIN ms : c \in DOMAIN ms[i].maps}
    IN IF has # {} THEN ms[CHOOSE i \in has : \A j \in has : j <= i].maps[c]
       ELSE IF c \in DOMAIN ext.mappings THEN ext.mappings[c]
       ELSE ext.orig.mappings[c]

\* C20: Extend leaves the original mapper as it was constructed.  When no
\* option offends, it returns a new mapper with no column plan whose columns
\* are the original columns followed by the added ones, whose mappings are
\* the original ones overridden by the supplied ones (and then by Mappings
\* options), whose sub-queries and row post-processors are the original ones
\* followed by the added ones, and whose default query is the inherited one
\* or, given one Query option, "SELECT <extended columns> <text>"; a second
\* Query option makes Extend fail with "cannot use multiple default queries"
\* and return no mapper
C20_Extend ==
    ext.done =>
        LET orig == ext.orig
            added == Join(ext.addColumns)
            cols == IF added = <<>> THEN orig.cols
                    ELSE IF orig.cols = <<>> THEN added
                    ELSE orig.cols \o <<",">> \o added
            k == FirstCtorOffender(ext.options)
            qs == OfKind(ext.options, "Query")
            sqs == OfKind(ext.options, "SubQuery")
            rps == OfKind(ext.options, "RowPostProcessor")
            ms == OfKind(ext.options, "Mappings")
        IN /\ Config(mappers[1]) = Config(orig)
           /\ Config(mappers[1]) = Constructed
           /\ k # 0 =>
                 /\ ~ext.ok
                 /\ ext.options[k].kind = "Query" =>
                       ext.err = "cannot use multiple default queries"
           /\ k = 0 =>
                 /\ ext.ok /\ ext.err = NoError
                 /\ ~ext.m.columnsInfo.valid
                 /\ ext.m.cols = cols
                 /\ DOMAIN ext.m.mappings =
                       DOMAIN orig.mappings \cup DOMAIN ext.mappings
                           \cup UNION {DOMAIN ms[i].maps : i \in DOMAIN ms}
                 /\ \A c \in DOMAIN ext.m.mappings : ext.m.mappings[c] = ExtendedMapping(c)
                 /\ ext.m.rowSubQueries =
                       orig.rowSubQueries \o [i \in DOMAIN sqs |-> sqs[i].sq]
                 /\ ext.m.rowPostProcessors =
                       orig.rowPostProcessors \o [i \in DOMAIN rps |-> rps[i].rp]
                 /\ ext.m.defaultQuery =
                       IF qs = <<>> THEN orig.defaultQuery
                       ELSE [set |-> TRUE,
                             text |-> <<"SELECT", " ">> \o cols \o <<" ">> \o qs[1].text]

\* the mapper constructed with "*", a mapping, a sub-query and a row
\* post-processor has read rows and has then been extended by b and c, by
\* mappings and by a Query, a sub-query and a row post-processor
C20_Witness ==
    /\ ext.done /\ ext.ok
    /\ mappers # <<>> /\ mappers[1].columnsInfo.valid
    /\ ext.orig.rowSubQueries = <<"items">>
    /\ ext.mappings = CallMappings
    /\ ext.m.cols = <<"*", ",", "b", ",", "c">>
    /\ ext.m.defaultQuery.text =
          <<"SELECT", " ", "*", ",", "b", ",", "c", " ", "FROM", " ", "u">>
    /\ ext.m.rowSubQueries = <<"items", "merge">>
    /\ Len(ext.m.rowPostProcessors) = 2
    /\ DOMAIN ext.m.mappings = {"a", "id"}
    /\ ext.m.mappings["a"] = ScanMappings["a"]

\* the calls of Execute that went through the nested read and returned
Returned(f) == {i \in DOMAIN f.executes : f.executes[i].ret}

\* row with the property name set to value and nothing else changed
WithProperty(row, name, value) ==
    [k \in (DOMAIN row) \cup {name} |-> IF k = name THEN value ELSE row[k]]

Iterations == {f \in MapperFrames : f.op = "Iterate" /\ f.cr.valid}

\* the first call of the handler at which it returns cont = false or an error
\* (0: it never does)
HandlerStop(h) ==
    IF h.stopAt = 0 THEN h.errAt
    ELSE IF h.errAt = 0 THEN h.stopAt
    ELSE IF h.stopAt < h.errAt THEN h.stopAt ELSE h.errAt

\* C22: Iterate hands the rows to the handler one by one in result-set
\* order, each once; it never calls the handler after a row failed to
\* assemble or after the handler returned cont = false or an error; it
\* returns when the rows are exhausted or at the first such stop, with the
\* row assembly error or the handler's error, and with nil after cont = false
\* and after the last row
C22_IterateHandler ==
    \A f \in Iterations :
        LET stop == HandlerStop(f.handler)
        IN /\ f.kept = [i \in 1..f.calls |-> i]
           /\ stop # 0 => f.calls <= stop
           /\ f.rowErr # NoError => f.scanned = [i \in 1..(f.calls + 1) |-> i]
           /\ f.rowErr = NoError /\ f.pc \in {"loop", "done"} => f.scanned = f.kept
           /\ f.pc = "done" =>
                 /\ \/ f.rowErr # NoError
                    \/ f.calls = stop
                    \/ f.calls = Len(f.rs.rows)
                 /\ f.err = IF f.rowErr # NoError THEN f.rowErr
                            ELSE IF f.handler.errAt # 0 /\ f.calls = f.handler.errAt
                                 THEN ErrHandler
                            ELSE NoError

\* Iterate over two rows has returned the error its handler returned for the
\* first row, without a second call of the handler
C22_Witness ==
    \E f \in Iterations :
        /\ f.pc = "done" /\ Len(f.rs.rows) = 2
        /\ f.handler.errAt = 1 /\ f.calls = 1
        /\ f.err = ErrHandler

\* the rows Rows returns, and the row FirstRow returns, for the call of frame
\* f when the call runs alone on a mapper that has read nothing before: the
\* plan is built from the call's own result set and mappings
AloneRow(f, i) ==
    mapRowScan(reader(newColumnsInfo(f.rs, f.o.mappings).info), f.rs.rows[i],
               f.o.mappings, f.o.exclusions, <<>>).row
AloneResult(f) ==
    IF f.op = "Rows" THEN ListV([i \in 1..Len(f.rs.rows) |-> AloneRow(f, i)])
    ELSE AloneRow(f, 1)

\* C23: whatever another goroutine does with the mapper at the same time, a
\* read call returns the rows it would return had it run alone on its own
\* result set
C23_CallsDoNotInterfere ==
    \A f \in TopFrames :
        f.pc = "done" /\ f.err = NoError => f.result = AloneResult(f)

\* the calls of Mapping.PostProcess for column i of the row at the cursor
PostProcessCalls(f, i) ==
    {k \in DOMAIN f.ppCalled : f.ppCalled[k].pos = f.pos /\ f.ppCalled[k].col = i}

\* C24: while a row is assembled the PostProcess of a mapped column is called
\* once when the column's property is placed, and not at all when the
\* property is excluded or omitted by OmitNull or the mapping has no
\* PostProcess; it is passed the row with the property placed at the end of
\* the mapping's path, and when it signals replace the replacement is what
\* the row has at that same place
C24_PostProcessGated ==
    \A f \in Assembled : \A i \in 1..f.cr.count :
        LET calls == PostProcessCalls(f, i)
        IN IF i \in Placed(f) /\ MappingOf(f, i).PostProcess # ""
           THEN /\ Cardinality(calls) = 1
                /\ \A k \in calls :
                      LET c == f.ppCalled[k]
                          mp == MappingOf(f, i)
                          r == PostProcessCall(mp.PostProcess, c.row, c.value)
                      IN /\ Holds(c.row, mp.Path, PropertyOf(f, i))
                         /\ Container(c.row, mp.Path).v[PropertyOf(f, i)] = c.value
                         /\ r.replace =>
                               /\ Holds(f.row, mp.Path, PropertyOf(f, i))
                               /\ Container(f.row, mp.Path).v[PropertyOf(f, i)] = r.value
                               /\ mp.Path # <<>> => PropertyOf(f, i) \notin DOMAIN f.row
           ELSE calls = {}

\* column b, mapped to the property bee at the path sub, deep with a
\* PostProcess that replaces, has been placed and replaced there
C24_Witness ==
    \E f \in Assembled :
        /\ MappingOf(f, 3).Path = <<"sub", "deep">> /\ MappingOf(f, 3).PropertyName = "bee"
        /\ MappingOf(f, 3).PostProcess = "ppReplace"
        /\ PostProcessCalls(f, 3) # {}
        /\ f.row["sub"].v["deep"].v["bee"] = StrV("replaced")
        /\ DOMAIN f.row = {"id", "a", "sub"}

\* the columns of the row at the cursor that are placed in the row, mapped or
\* not, and the property each becomes
NameOf(f, i) == IF i \in MappedColumns(f) THEN PropertyOf(f, i) ELSE f.cr.names[i]
PlacedColumns(f) ==
    {i \in 1..f.cr.count :
        IF i \in MappedColumns(f) THEN i \in Placed(f)
        ELSE ~Exclude(f.o.exclusions, f.cr.names[i], mappers[f.m].subPath)}

\* the placed columns that have a PostProcess
Processed(f) == {i \in Placed(f) : MappingOf(f, i).PostProcess # ""}

\* for the row at the cursor: the calls of Mapping.PostProcess, of
\* SubQuery.Execute and of RowPostProcessor.PostProcess, in the order made
ColumnCalls(f) == SelectSeq(f.ppCalled, LAMBDA c : c.pos = f.pos)
ExecuteCalls(f) == SelectSeq(f.executes, LAMBDA e : e.pos = f.pos)
RowCallsOf(f) == SelectSeq(f.rpCalled, LAMBDA c : c[1] = f.pos)

\* the sub-queries and the row post-processors (by index) of the call that
\* the exclusions do not exclude, in registration order
Runnable(f) ==
    SelectSeq(f.o.subQueries, LAMBDA id : ~Excluded(f, subq[id].propertyName))
RunnableProcessors(f) ==
    SelectSeq([j \in DOMAIN f.o.postProcesses |-> j],
              LAMBDA j : ~Excluded(f, f.o.postProcesses[j].provides))

\* a call of Mapping.PostProcess, or of Execute, failed
ColumnCallFailed(f, c) ==
    PostProcessCall(MappingOf(f, c.col).PostProcess, c.row, c.value).err # NoError
ExecuteFailed(f, e) ==
    f.pc \notin {"rowMapperHit", "rowMapperMiss", "execute"} /\ (~e.ret \/ e.err # NoError)

\* the frames of the top-level calls that have scanned the row at the cursor
Assembling == {f \in TopFrames : f.pos > 0 /\ f.pos \in {f.scanned[i] : i \in DOMAIN f.scanned}}

\* C25: the sub-queries and row post-processors of a call are the mapper's
\* own followed by the call's.  For each row: PostProcess is called for the
\* placed columns in column order and sees the properties of the placed
\* columns up to its own, with its own value; Execute is called for the
\* sub-queries that are not excluded, in registration order, only after
\* every column was processed, each on the row the one before left; the row
\* post-processors that are not excluded are called in registration order,
\* only after every such sub-query was executed; a call that fails is the
\* last call made for the row, and the operation returns no row
C25_AssemblyOrder ==
    \A f \in Assembling :
        LET cs == ColumnCalls(f)
            es == ExecuteCalls(f)
            rs == RowCallsOf(f)
            sqs == OfKind(f.opts, "SubQuery")
            rps == OfKind(f.opts, "RowPostProcessor")
        IN /\ f.o.subQueries = mappers[1].rowSubQueries \o [i \in DOMAIN sqs |-> sqs[i].sq]
           /\ f.o.postProcesses =
                 mappers[1].rowPostProcessors \o [i \in DOMAIN rps |-> rps[i].rp]
           /\ \A k \in DOMAIN cs :
                 /\ cs[k].col \in Processed(f)
                 /\ {i \in Processed(f) : i < cs[k].col} = {cs[j].col : j \in 1..(k - 1)}
                 /\ k > 1 => cs[k - 1].col < cs[k].col
                 /\ DOMAIN cs[k].row =
                       {NameOf(f, i) : i \in {j \in PlacedColumns(f) : j <= cs[k].col}}
                 /\ cs[k].row[NameOf(f, cs[k].col)] = cs[k].value
                 /\ ColumnCallFailed(f, cs[k]) =>
                       k = Len(cs) /\ es = <<>> /\ rs = <<>> /\ f.rowErr = ErrPostProcess
           /\ Len(es) <= Len(Runnable(f))
           /\ \A k \in DOMAIN es :
                 /\ es[k].id = Runnable(f)[k]
                 /\ {cs[j].col : j \in DOMAIN cs} = Processed(f)
                 /\ {"id"} \cup {NameOf(f, i) : i \in PlacedColumns(f)} \subseteq DOMAIN es[k].row
                 /\ k > 1 => es[k].row = es[k - 1].after
                 /\ ExecuteFailed(f, es[k]) =>
                       k = Len(es) /\ rs = <<>> /\ f.rowErr # NoError
           /\ \A k \in DOMAIN rs :
                 /\ k <= Len(RunnableProcessors(f))
                 /\ rs[k][2] = RunnableProcessors(f)[k]
                 /\ Len(es) = Len(Runnable(f))
                 /\ \A j \in DOMAIN es : es[j].ret /\ es[j].err = NoError
                 /\ RowPostProcess(f.o.postProcesses[rs[k][2]], f.row).err # NoError =>
                       k = Len(rs) /\ f.rowErr = ErrRowPostProcess
           /\ f.pc \in {"loop", "done"} /\ f.rowErr = NoError =>
                 /\ Len(es) = Len(Runnable(f))
                 /\ Len(rs) = Len(RunnableProcessors(f))
                 /\ f.pos \in {f.kept[i] : i \in DOMAIN f.kept}
           /\ f.rowErr # NoError =>
                 /\ f.pc = "done" /\ f.result = Nil /\ f.err = f.rowErr /\ f.kept = <<>>

\* both columns were processed, then the mapper's sub-query items and the
\* call's sub-query detail were executed in that order, then the mapper's
\* row post-processor was called and the call's, which failed: no row
C25_Witness ==
    \E f \in Assembling :
        /\ Len(ColumnCalls(f)) = 2
        /\ Len(ExecuteCalls(f)) = 2
        /\ ExecuteCalls(f)[1].id = "items" /\ ExecuteCalls(f)[2].id = "detail"
        /\ RowCallsOf(f) = <<<<1, 1>>, <<1, 2>>>>
        /\ f.rowErr = ErrRowPostProcess
        /\ f.pc = "done" /\ f.result = Nil

\* the path of the mapping of column i of frame f (none: the empty path)
PathOf(f, i) == IF i \in MappedColumns(f) THEN MappingOf(f, i).Path ELSE <<>>

\* some excluder of the exclusions xs excludes the property at the path
SomeExcludes(xs, property, path) ==
    \E k \in DOMAIN xs :
        IF xs[k].kind = "allowed"
        THEN IF property \in xs[k].cprops THEN <<property, path>> \in xs[k].pairs
             ELSE property \notin xs[k].props
        ELSE xs[k].kind = "cond" /\ <<property, path>> \in xs[k].pairs

\* in frame f, whose columns of the row at the cursor have been placed, the
\* properties in the row are those of the columns that no excluder of xs
\* excludes at prefix followed by the path of the column's mapping
DroppedExactly(f, xs, prefix) ==
    \A i \in 1..f.cr.count :
        Holds(f.row, PathOf(f, i), NameOf(f, i))
            <=> ~SomeExcludes(xs, NameOf(f, i), prefix \o PathOf(f, i))

\* C26: the nested read of a sub-query is given the exclusions of the call,
\* and drops a column of its result exactly when an excluder excludes the
\* column's property at the path made of the sub-query's property name (for
\* a merge sub-query, of nothing) followed by the path of the column's
\* mapping; a top-level column is dropped exactly when an excluder excludes
\* its property at the path of its mapping
C26_ExclusionPaths ==
    \A p \in Procs :
        /\ Len(stack[p]) = 1 /\ stack[p][1].pc = "subQueries" /\ stack[p][1].sqi = 1 =>
              DroppedExactly(stack[p][1], stack[p][1].o.exclusions, <<>>)
        /\ Len(stack[p]) = 2 =>
              LET parent == stack[p][1]
                  f == stack[p][2]
                  sq == subq[CurrentSubQuery(parent)]
              IN /\ f.o.exclusions = parent.o.exclusions
                 /\ f.pc = "subQueries" =>
                       DroppedExactly(f, parent.o.exclusions,
                                      IF sq.shape = "merge" THEN <<>>
                                      ELSE <<sq.propertyName>>)

\* under an excluder of a at the path items, in, the nested read of the array
\* sub-query items has dropped its column a and kept c, while the top-level
\* row has kept its a at the path in
C26_Witness ==
    \E p \in Procs :
        /\ Len(stack[p]) = 2
        /\ CurrentSubQuery(stack[p][1]) = "nested"
        /\ stack[p][1].o.exclusions = <<Excluder("cond", {}, {}, {<<"a", <<"items", "in">>>>})>>
        /\ stack[p][1].row["in"].v["a"] = StrV("x")
        /\ stack[p][2].pc = "subQueries"
        /\ DOMAIN stack[p][2].row = {"c"}

\* the mappings configure a custom Scanner for the column name
HasCustomScanner(mappings, name) ==
    name \in DOMAIN mappings /\ mappings[name].Scanner # ""

FirstOf(op) == IF op = "ExactlyOneRow" THEN "FirstRow" ELSE "WriteFirstRow"

\* completed calls of ExactlyOneRow and WriteExactlyOneRow
ExactlyOneDone ==
    {f \in TopFrames : f.op \in {"ExactlyOneRow", "WriteExactlyOneRow"} /\ f.pc = "done"}

\* C28: over a result set of more than one row ExactlyOneRow returns the
\* first row with a nil error and WriteExactlyOneRow writes it, with a nil
\* error unless the writer fails, and no row after the first is read; over a
\* result set of at least one row they return and write what FirstRow and
\* WriteFirstRow, called the same way, return and write
C28_ExactlyOneRowTakesFirst ==
    \A f \in ExactlyOneDone :
        /\ Len(f.rs.rows) > 1 =>
              /\ f.pos = 1 /\ f.scanned = <<1>>
              /\ f.wfail = 0 => f.err = NoError /\ f.kept = <<1>>
              /\ f.op = "ExactlyOneRow" =>
                    f.result = MapV("id" :> IntV("1") @@ "a" :> StrV("x"))
              /\ f.op = "WriteExactlyOneRow" /\ f.wfail = 0 =>
                    f.out = <<MapV("id" :> IntV("1") @@ "a" :> StrV("x"))>>
        /\ Len(f.rs.rows) >= 1 =>
              \A g \in TopFrames :
                  g.op = FirstOf(f.op) /\ g.pc = "done" /\ g.rs = f.rs /\ g.wfail = f.wfail =>
                      g.result = f.result /\ g.err = f.err /\ g.out = f.out

\* over the same three rows one goroutine's ExactlyOneRow and the other's
\* FirstRow have both returned
C28_Witness ==
    \E f \in ExactlyOneDone :
        /\ f.op = "ExactlyOneRow" /\ Len(f.rs.rows) = 3 /\ f.err = NoError
        /\ \E g \in TopFrames : g.op = "FirstRow" /\ g.pc = "done" /\ g.rs = f.rs

\* the column plan cached in the mapper (none before the mapper is made)
CachedPlan == IF mappers = <<>> THEN NilColumnsInfo ELSE mappers[1].columnsInfo

\* what the scanner of the cached plan makes of the driver value of column a:
\* the custom Scanner of the plan's mappings if they have one for a, else the
\* string scanner of a VARCHAR column
PlanScanned(raw) ==
    IF HasCustomScanner(CachedPlan.mappings, "a") THEN BoolColumn(raw).v
    ELSE IF raw.t = "bytes" THEN StrV(raw.v) ELSE raw

\* the scanners of a call's reader are custom exactly where the mappings of
\* the cached plan have a Scanner, whatever the call's own mappings say
ScannersOfPlan(f) ==
    \A i \in 1..f.cr.count :
        IF HasCustomScanner(CachedPlan.mappings, f.cr.names[i])
        THEN /\ f.cr.scanArgs[i].kind = "custom"
             /\ f.cr.scanArgs[i].scanner = CachedPlan.mappings[f.cr.names[i]].Scanner
        ELSE f.cr.scanArgs[i].kind # "custom"

\* the row the call has assembled holds column a as the call's own mappings
\* say (name, path, OmitNull, NullDefault, PostProcess), with the value the
\* plan's scanner decoded
PlacedPerCall(f) ==
    LET v == PlanScanned(RawOf(f, 2))
    IN IF 2 \in MappedColumns(f)
       THEN LET mp == MappingOf(f, 2)
                name == IF mp.PropertyName # "" THEN mp.PropertyName ELSE "a"
            IN IF v.t = "nil" /\ mp.OmitNull THEN ~Holds(f.row, mp.Path, name)
               ELSE /\ Holds(f.row, mp.Path, name)
                    /\ Container(f.row, mp.Path).v[name] =
                          IF mp.PostProcess = "ppReplace" THEN StrV("replaced")
                          ELSE IF v.t = "nil" /\ mp.NullDefault # Nil THEN mp.NullDefault
                          ELSE v
       ELSE "a" \in DOMAIN f.row /\ f.row["a"] = v

\* a step leaves a plan that is cached as it is, and a step that caches a
\* plan gives it the effective mappings of the call that takes the step
PlanKept ==
    /\ CachedPlan.valid => CachedPlan' = CachedPlan
    /\ ~CachedPlan.valid /\ CachedPlan'.valid =>
          CachedPlan'.mappings = Top(Main).o.mappings

\* C29: the cached column plan takes the effective mappings of the call that
\* builds it and is never changed by a later call; the scanners of every
\* call's reader are those of the plan's mappings, so the Scanner of a later
\* call's Mappings option is not used, while the name, the path, the null
\* handling and the PostProcess applied to the column are those of the
\* call's own mappings
C29_PlanKeepsBuilderMappings ==
    /\ [](\A f \in TopFrames :
              /\ f.cr.valid => CachedPlan.valid /\ ScannersOfPlan(f)
              /\ f \in Assembled => PlacedPerCall(f))
    /\ [][PlanKept]_vars

\* a call whose Mappings option gives column a the BoolColumn Scanner, the
\* name alpha and the path sub reads "1" through the plan of an earlier call
\* that had no Scanner: the row is {id, sub: {alpha: "1"}} with the string
C29_Witness ==
    \E f \in Assembled :
        /\ f.op = "FirstRow" /\ started = 2
        /\ ~HasCustomScanner(CachedPlan.mappings, "a")
        /\ HasCustomScanner(f.o.mappings, "a")
        /\ f.o.mappings["a"].PropertyName = "alpha" /\ f.o.mappings["a"].Path = <<"sub">>
        /\ f.cr.scanArgs[2].kind = "string"
        /\ f.row = ("id" :> IntV("1") @@ "sub" :> MapV("alpha" :> StrV("1")))

\* the calls of Iterator and what has become of the function each returned
IteratorFrames == {f \in Frames : f.op = "StructIterator"}

\* C30: the function Iterator returned calls yield no more once yield has
\* returned false, and the cursor Iterator opened is closed when the
\* function has returned, when it was stopped early and when the consumer
\* let go of it without invoking it
C30_IteratorStopsAndCloses ==
    \A f \in IteratorFrames :
        /\ \A k \in 1..(Len(f.yielded) - 1) : f.yielded[k].ret
        /\ f.pc \in {"done", "panic", "dropped"} => f.cursor # "open"

====
